---- MODULE Spec2Model ----
(***************************************************************************)
(* The flat-file stores of the HRT Journey Tracker Suite.                  *)
(*                                                                         *)
(* The suite is a set of independent desktop programs; a behaviour of this *)
(* module is a run of ONE of them (the variable app says which), so the    *)
(* programs share the variables disk (the program's store file), mem (the  *)
(* sequence the program keeps in memory, when it keeps one) and the        *)
(* observation variables op, ret, notice.                                  *)
(*                                                                         *)
(*   Journey   src/Journey/storage.py            (module functions)        *)
(*   HRT       src/TrackMyHRT/HRT.py             (module functions + save) *)
(*   Links     src/Resource manager/r-m.py       (LinkStorage)             *)
(*   Cycle     src/Cycle Tracker/C-T.py          (CycleTrackerWindow)      *)
(*   JJ        src/Journey Journal/JJ.py         (HRTJournalWindow)        *)
(*   Med       src/HRTjourneytracker/modules/medication_tracker.py         *)
(*   Journal   src/HRTjourneytracker/modules/journal.py                    *)
(***************************************************************************)
EXTENDS Integers, Sequences, FiniteSets, TLC

VARIABLES
    app,        \* the program this behaviour runs
    running,    \* the process is alive (FALSE before start and after a crash)
    disk,       \* the store file: [kind, recs]
    legacy,     \* TrackMyHRT's legacy entries.jsonl: its parsed dict lines
    migrated,   \* how many times _migrate_jsonl_to_json_if_needed has written entries.json
    mem,        \* the in-memory sequence (LinkStorage.data, self.entries, self._entries)
    editing,    \* MedicationTracker._editing_entry_when ("" = None)
    ui,         \* Journal's editor: [current_id, dirty, safe_mode, title]
    table,      \* the rows of the Medication log's table: the `when` cell of each row
    nextId,     \* the next identifier uuid4 hands out
    op,         \* the operation the last step ran
    arg,        \* its argument (a record, a key or an index)
    ret,        \* its result: "True", "False", "None", "list", or the exception raised
    loaded,     \* the sequence the last load returned
    notice,     \* the message box the last step showed ("" = none)
    preWrite,   \* after a crash: the store file as it was when the cut-short write began
    crashed,    \* the last step was cut short by a crash inside a write
    proc,       \* two instances of Journey on one file: each one's place in upsert_entry
    lock,       \* the lock file .hrt_data.lock exists
    timedOut,   \* some wait in _acquire_lock has run into its timeout
    overlap,    \* the latest upsert_entry call began while the other instance was in one
    win,        \* Voice Trainer's MainWindow: buttons, counters, countdown, last_path
    workers,    \* Voice Trainer's record_thread and note_record_thread
    signals,    \* signals the worker threads emitted, queued for the UI thread
    finput,     \* a list view's entries and the text of its search box
    listed,     \* the rows the list view shows after its refresh
    acq,        \* one _write_data call of Journey: its place in _acquire_lock, its clock
    prefs,      \* Journey's settings: settings.json, _settings_cache, the last call's result
    views       \* two Medication logs side by side: safe mode, tables, text exports

\* the variables of one program's run, and those of the two instances
pvars == <<app, running, legacy, migrated, mem, editing, ui, table, op, arg, ret, loaded,
           notice, preWrite, crashed>>
cvars == <<proc, lock, timedOut, overlap>>
\* those of the Voice Trainer, and those of a list view's search
rvars == <<win, workers, signals>>
fvars == <<finput, listed>>
\* those of the parts that are followed on their own
evars == <<acq, prefs, views>>
vars == <<app, running, disk, legacy, migrated, mem, editing, ui, table, nextId, op, arg, ret,
          loaded, notice, preWrite, crashed, proc, lock, timedOut, overlap, win, workers, signals,
          finput, listed, acq, prefs, views>>
\* what a step of one of the kinds of behaviour leaves alone
notSingle == <<cvars, rvars, fvars, evars>>
notConc == <<pvars, rvars, fvars, evars>>
notVoice == <<disk, nextId, pvars, cvars, fvars, evars>>
notFilter == <<disk, nextId, pvars, cvars, rvars, evars>>
notLock == <<disk, nextId, pvars, proc, timedOut, overlap, rvars, fvars, prefs, views>>
notPrefs == <<disk, nextId, pvars, cvars, rvars, fvars, acq, views>>
notViews == <<disk, nextId, pvars, cvars, rvars, fvars, acq, prefs>>

(***************************************************************************)
(* Bounds and value sets                                                   *)
(***************************************************************************)
MaxLen == 2          \* longest sequence a store holds
MaxId == 3           \* identifiers uuid4 may hand out in one behaviour

Dates == {"2024-01-01", "2024-01-02"}
Vals == {"x", "y"}
Nows == {"t1"}
NoArg == [none |-> TRUE]

\* What a file can hold: nothing (missing), text that is not JSON ("notjson":
\* overwritten from outside; "empty": truncated to zero bytes; "partial": a
\* half-written document), or a JSON array of records.
Missing == [kind |-> "missing", recs |-> <<>>]
NotJson == [kind |-> "notjson", recs |-> <<>>]
EmptyFile == [kind |-> "empty", recs |-> <<>>]
Partial == [kind |-> "partial", recs |-> <<>>]
Array(s) == [kind |-> "list", recs |-> s]
InvalidKinds == {"notjson", "empty", "partial"}
IsInvalid(f) == f.kind \in InvalidKinds

\* How a write can end: it completes, the process dies inside it (after the
\* target was opened, or after part of the document was written), or the
\* operating system refuses it (at open: permissions; later: disk full).
WriteOutcomes == {"ok", "crash_open", "crash_mid", "fail_open", "fail_mid"}
IsCrash(o) == o \in {"crash_open", "crash_mid"}
IsFail(o) == o \in {"fail_open", "fail_mid"}
\* For a write through a temp file the two moments of a crash or of a failure
\* leave the same target, so one of each is enumerated.
AtomicOutcomes == {"ok", "crash_mid", "fail_mid"}

(***************************************************************************)
(* The two ways the programs write a store file                            *)
(***************************************************************************)
\* temp file in the same directory, then os.replace over the target: the
\* target changes only when the rename happens.
AtomicWrite(old, data, o) == IF o = "ok" THEN Array(data) ELSE old

\* A write that would return before the closing bracket of the array is out.
DirectWriteUnclosed(old, data, o) == IF o = "fail_open" THEN old ELSE Partial

\* open(target, "w") truncates the target, then the document is written into it.
DirectWrite(old, data, o) ==
    CASE o = "ok" -> Array(data)
      [] o = "fail_open" -> old
      [] o = "crash_open" -> EmptyFile
      [] OTHER -> Partial

SeqRemove(s, i) == SubSeq(s, 1, i - 1) \o SubSeq(s, i + 1, Len(s))
Indices(s) == 1..Len(s)

(***************************************************************************)
(* Journey: src/Journey/storage.py                                         *)
(***************************************************************************)
\* The entries the application builds: no id, no timestamps. BlankDated is
\* the entry upsert_entry refuses.
JEntries == [date : Dates, val : Vals, id : {0}, created_at : {""}, updated_at : {""}]
BlankDated == [date |-> "", val |-> "x", id |-> 0, created_at |-> "", updated_at |-> ""]

\* A load that would take every entry for one in need of the upgrade.
NeedsUpgradeAlways(e) == TRUE

NeedsUpgrade(e) == e.id = 0 \/ e.created_at = "" \/ e.updated_at = ""

\* An upgrade that would give every entry a new id, whether it has one or not.
UpgradeEntryRenumbering(e, newId, now) ==
    [e EXCEPT !.id = newId,
              !.created_at = IF e.created_at = "" THEN now ELSE e.created_at,
              !.updated_at = IF e.updated_at = "" THEN now ELSE e.updated_at]

\* load_data's per-entry schema upgrade: id, created_at, updated_at are filled
\* in when they are missing or empty.
UpgradeEntry(e, newId, now) ==
    [e EXCEPT !.id = IF e.id = 0 THEN newId ELSE e.id,
              !.created_at = IF e.created_at = ""
                             THEN (IF e.updated_at # "" THEN e.updated_at ELSE now)
                             ELSE e.created_at,
              !.updated_at = IF e.updated_at = "" THEN now ELSE e.updated_at]

\* ids[i] is the value uuid4 returns for the i-th entry, should it need one
UpgradeAll(s, ids, now) == [i \in Indices(s) |-> UpgradeEntry(s[i], ids[i], now)]

\* _write_data: atomic write; "raise" is the OSError that escapes it.
WriteData(old, data, o) ==
    [disk |-> AtomicWrite(old, data, o),
     status |-> IF o = "ok" THEN "ok" ELSE IF IsCrash(o) THEN "crash" ELSE "raise"]

\* load_data: the list it returns and the file it leaves.
\* An OSError of the upgrade's write is caught by load_data's own except
\* clause, which returns [].
LoadData(f, ids, now, o) ==
    IF f.kind # "list" THEN
        [data |-> <<>>, disk |-> f, status |-> "ok", wrote |-> FALSE]
    ELSE IF \E i \in Indices(f.recs) : NeedsUpgrade(f.recs[i]) THEN
        LET up == UpgradeAll(f.recs, ids, now)
            w == WriteData(f, up, o)
        IN  [data |-> IF w.status = "ok" THEN up ELSE <<>>,
             disk |-> w.disk,
             status |-> IF w.status = "crash" THEN "crash" ELSE "ok",
             wrote |-> TRUE]
    ELSE
        [data |-> f.recs, disk |-> f, status |-> "ok", wrote |-> FALSE]

\* uuid4 never returns a value it returned before: the values are numbered,
\* and nextId is the next one. FreshIds(s, n)[i] is what the i-th entry of s
\* gets when it lacks an id, UsedIds(s) how many values that takes.
LacksId(s) == {i \in Indices(s) : s[i].id = 0}
UsedIds(s) == Cardinality(LacksId(s))
FreshIds(s, n) == [i \in Indices(s) |-> n + Cardinality({j \in LacksId(s) : j < i})]
IdsLeft(s) == nextId + UsedIds(s) <= MaxId + 1

\* The observation variables of a step.
Observe(o, a, r, l, n) ==
    /\ op' = o
    /\ arg' = a
    /\ ret' = r
    /\ loaded' = l
    /\ notice' = n
    /\ UNCHANGED notSingle      \* a step of the one program

\* The step ran to its end (with a result or an exception): the process lives.
Return(o, a, r, l, n) ==
    /\ Observe(o, a, r, l, n)
    /\ running' = TRUE
    /\ crashed' = FALSE
    /\ preWrite' = disk'

\* The process died inside a write that found the file as `pre`.
Die(o, pre) ==
    /\ Observe(o, NoArg, "crash", <<>>, "")
    /\ running' = FALSE
    /\ crashed' = TRUE
    /\ preWrite' = pre

JIdle == app = "Journey" /\ running

\* load_data()
JLoadData ==
    /\ JIdle /\ IdsLeft(disk.recs)
    /\ \E now \in Nows, o \in AtomicOutcomes :
         LET l == LoadData(disk, FreshIds(disk.recs, nextId), now, o) IN
         /\ l.wrote \/ o = "ok"
         /\ disk' = l.disk
         /\ nextId' = IF l.wrote THEN nextId + UsedIds(disk.recs) ELSE nextId
         /\ IF l.status = "crash" THEN Die("load_data", disk)
            ELSE Return("load_data", NoArg, "list", l.data, "")
    /\ UNCHANGED <<table, ui, app, legacy, migrated, mem, editing>>

\* The part of save_entry, upsert_entry and delete_entry_by_date after their
\* load_data: write `data` (when doWrite) and return r.
JFinish(name, a, l, data, doWrite, r, o) ==
    LET w == WriteData(l.disk, data, o) IN
    /\ nextId' = IF l.wrote THEN nextId + UsedIds(disk.recs) ELSE nextId
    /\ CASE l.status = "crash" ->
                disk' = l.disk /\ Die(name, disk)
         [] l.status # "crash" /\ doWrite /\ w.status = "crash" ->
                disk' = w.disk /\ Die(name, l.disk)
         [] l.status # "crash" /\ doWrite /\ w.status = "raise" ->
                disk' = w.disk /\ Return(name, NoArg, "OSError", <<>>, "")
         [] OTHER ->
                /\ disk' = IF doWrite THEN w.disk ELSE l.disk
                /\ Return(name, a, r, <<>>, "")

\* save_entry(entry): append, no dedupe
JSaveEntry ==
    /\ JIdle /\ IdsLeft(disk.recs)
    /\ \E e \in JEntries, now \in Nows, o1, o2 \in AtomicOutcomes :
         LET l == LoadData(disk, FreshIds(disk.recs, nextId), now, o1) IN
         /\ l.wrote \/ o1 = "ok"
         /\ l.status # "crash" \/ o2 = "ok"
         /\ Len(l.data) < MaxLen
         /\ JFinish("save_entry", e, l, Append(l.data, e), TRUE, "None", o2)
    /\ UNCHANGED <<table, ui, app, legacy, migrated, mem, editing>>

\* upsert_entry(entry): insert or replace by entry["date"]
JUpsertEntry ==
    /\ JIdle /\ IdsLeft(disk.recs)
    /\ \E e \in JEntries \cup {BlankDated}, now \in Nows, o1, o2 \in AtomicOutcomes :
         IF e.date = "" THEN
             \* raise ValueError, before load_data
             /\ o1 = "ok" /\ o2 = "ok"
             /\ UNCHANGED <<disk, nextId>>
             /\ Return("upsert_entry", e, "ValueError", <<>>, "")
         ELSE
             LET l == LoadData(disk, FreshIds(disk.recs, nextId), now, o1)
                 hits == {i \in Indices(l.data) : l.data[i].date = e.date}
                 first == CHOOSE i \in hits : \A j \in hits : i <= j
             IN
             /\ l.wrote \/ o1 = "ok"
             /\ l.status # "crash" \/ o2 = "ok"
             /\ IF hits # {} THEN
                    JFinish("upsert_entry", e, l, [l.data EXCEPT ![first] = e],
                            TRUE, "True", o2)
                ELSE
                    /\ Len(l.data) < MaxLen
                    /\ JFinish("upsert_entry", e, l, Append(l.data, e),
                               TRUE, "False", o2)
    /\ UNCHANGED <<table, ui, app, legacy, migrated, mem, editing>>

\* A filter that would drop the oldest entry when none has the date.
DeleteByDateOrOldest(data, d) ==
    IF \A i \in Indices(data) : data[i].date # d
    THEN (IF data = <<>> THEN data ELSE Tail(data))
    ELSE SelectSeq(data, LAMBDA e : e.date # d)

\* delete_entry_by_date's filter: every entry of that date goes
DeleteByDate(data, d) == SelectSeq(data, LAMBDA e : e.date # d)

\* delete_entry_by_date(target_date)
JDeleteEntryByDate ==
    /\ JIdle /\ IdsLeft(disk.recs)
    /\ \E d \in Dates, now \in Nows, o1, o2 \in AtomicOutcomes :
         LET l == LoadData(disk, FreshIds(disk.recs, nextId), now, o1)
             new_data == DeleteByDate(l.data, d)
             found == Len(new_data) # Len(l.data)
         IN
         /\ l.wrote \/ o1 = "ok"
         /\ (l.status # "crash" /\ found) \/ o2 = "ok"
         /\ JFinish("delete_entry_by_date", [date |-> d], l, new_data, found,
                    IF found THEN "True" ELSE "False", o2)
    /\ UNCHANGED <<table, ui, app, legacy, migrated, mem, editing>>

\* _write_data(data): the bulk save; callers pass what they loaded, or one record
JWriteData ==
    /\ JIdle
    /\ \E data \in {loaded} \cup {<<e>> : e \in JEntries}, o \in AtomicOutcomes :
         LET w == WriteData(disk, data, o) IN
         /\ disk' = w.disk
         /\ CASE w.status = "ok" -> Return("_write_data", [data |-> data], "None", <<>>, "")
              [] w.status = "crash" -> Die("_write_data", disk)
              [] OTHER -> Return("_write_data", NoArg, "OSError", <<>>, "")
    /\ UNCHANGED <<table, ui, app, legacy, migrated, mem, editing, nextId>>

JourneyNext ==
    \/ JLoadData
    \/ JSaveEntry
    \/ JUpsertEntry
    \/ JDeleteEntryByDate
    \/ JWriteData

(***************************************************************************)
(* TrackMyHRT: src/TrackMyHRT/HRT.py                                       *)
(***************************************************************************)
Stamps == {"T1", "T2"}                 \* timestamp_local values
StampRank(t) == IF t = "T1" THEN 1 ELSE 2
HRecord(i, t) == [id |-> i, timestamp_local |-> t, created_at |-> t, updated_at |-> t]
\* a line of the legacy entries.jsonl: no id, no created_at/updated_at
LegacyLine(t) == [id |-> 0, timestamp_local |-> t, created_at |-> "", updated_at |-> ""]

\* _ensure_storage_ready: a missing entries.json is created as "[]"
EnsureStorageReady(f) == IF f.kind = "missing" THEN Array(<<>>) ELSE f

\* _read_entries_json: [] for a missing file, for any exception, for a non-list
ReadEntriesJson(f) == IF f.kind = "list" THEN f.recs ELSE <<>>

\* _write_entries_json_atomic: path + ".tmp", then os.replace
WriteEntriesJsonAtomic(old, entries, o) ==
    [disk |-> AtomicWrite(old, entries, o),
     status |-> IF o = "ok" THEN "ok" ELSE IF IsCrash(o) THEN "crash" ELSE "raise"]

\* _ensure_entry_ids: an entry without id gets one, and its timestamps
EnsureEntryIds(s, n) ==
    [i \in Indices(s) |->
        IF s[i].id = 0 THEN
            [s[i] EXCEPT
                !.id = FreshIds(s, n)[i],
                !.created_at = IF s[i].timestamp_local # "" /\ s[i].created_at = ""
                               THEN s[i].timestamp_local ELSE s[i].created_at,
                !.updated_at = IF s[i].timestamp_local # "" /\ s[i].updated_at = ""
                               THEN s[i].timestamp_local ELSE s[i].updated_at]
        ELSE s[i]]

\* entries.sort(key=timestamp_local, reverse=True): a stable sort, newest first
RECURSIVE InsertDesc(_, _)
InsertDesc(e, s) ==
    IF s = <<>> THEN <<e>>
    ELSE IF StampRank(Head(s).timestamp_local) >= StampRank(e.timestamp_local)
         THEN <<Head(s)>> \o InsertDesc(e, Tail(s))
         ELSE <<e>> \o s
RECURSIVE SortNewestFirst(_)
SortNewestFirst(s) ==
    IF s = <<>> THEN <<>>
    ELSE InsertDesc(s[Len(s)], SortNewestFirst(SubSeq(s, 1, Len(s) - 1)))

\* _migrate_jsonl_to_json_if_needed
MigrateJsonlToJsonIfNeeded(f, leg, n, o) ==
    LET f1 == EnsureStorageReady(f)
        existing == ReadEntriesJson(f1)
    IN  IF existing # <<>> \/ leg = <<>> THEN
            [disk |-> f1, status |-> "ok", wrote |-> FALSE, used |-> 0]
        ELSE
            LET w == WriteEntriesJsonAtomic(f1, EnsureEntryIds(leg, n), o)
            IN  [disk |-> w.disk, status |-> w.status, wrote |-> TRUE,
                 used |-> UsedIds(leg)]

HIdle == app = "HRT" /\ running

\* _load_entries(): migrate, read, persist missing ids (an OSError of that
\* write is swallowed), sort newest first
HLoadEntries ==
    /\ HIdle
    /\ nextId + UsedIds(legacy) + UsedIds(disk.recs) <= MaxId + 1
    /\ \E o \in AtomicOutcomes :
         LET m == MigrateJsonlToJsonIfNeeded(disk, legacy, nextId, o)
             entries == ReadEntriesJson(m.disk)
             n1 == nextId + m.used
             fixed == EnsureEntryIds(entries, n1)
             changed == UsedIds(entries) > 0
             w == WriteEntriesJsonAtomic(m.disk, fixed, o)
         IN
         /\ m.wrote \/ changed \/ o = "ok"
         /\ nextId' = n1 + UsedIds(entries)
         /\ CASE m.status = "crash" ->
                    disk' = m.disk /\ Die("_load_entries", EnsureStorageReady(disk))
              [] m.status = "raise" ->
                    disk' = m.disk /\ Return("_load_entries", NoArg, "OSError", <<>>, "")
              [] m.status = "ok" /\ changed /\ w.status = "crash" ->
                    disk' = w.disk /\ Die("_load_entries", m.disk)
              [] OTHER ->
                    /\ disk' = IF changed THEN w.disk ELSE m.disk
                    /\ Return("_load_entries", NoArg, "list", SortNewestFirst(fixed), "")
         /\ migrated' = IF m.wrote /\ m.status = "ok" THEN migrated + 1 ELSE migrated
    /\ UNCHANGED <<table, ui, app, legacy, mem, editing>>

\* The tail shared by the functions that read entries.json and write it back.
\* `shown` is TRUE for the window's handler, which catches the OSError and
\* shows it, and confirms a save with an information box.
HFinish(name, a, f1, data, doWrite, r, shown, o) ==
    LET w == WriteEntriesJsonAtomic(f1, data, o) IN
    CASE doWrite /\ w.status = "crash" -> disk' = w.disk /\ Die(name, f1)
      [] doWrite /\ w.status = "raise" ->
            /\ disk' = w.disk
            /\ Return(name, NoArg, IF shown THEN "None" ELSE "OSError", <<>>,
                      IF shown THEN "critical" ELSE "")
      [] OTHER ->
            /\ disk' = IF doWrite THEN w.disk ELSE f1
            /\ Return(name, a, r, <<>>, IF shown THEN "information" ELSE "")

\* _delete_entry_by_id(entry_id); 0 is the empty id
HDeleteEntryById ==
    /\ HIdle
    /\ \E entry_id \in 0..MaxId, o \in AtomicOutcomes :
         IF entry_id = 0 THEN
             /\ o = "ok"
             /\ disk' = disk
             /\ Return("_delete_entry_by_id", [id |-> entry_id], "False", <<>>, "")
         ELSE
             LET f1 == EnsureStorageReady(disk)
                 entries == ReadEntriesJson(f1)
                 kept == SelectSeq(entries, LAMBDA e : e.id # entry_id)
                 found == Len(kept) # Len(entries)
             IN
             /\ found \/ o = "ok"
             /\ HFinish("_delete_entry_by_id", [id |-> entry_id], f1, kept, found,
                        IF found THEN "True" ELSE "False", FALSE, o)
    /\ UNCHANGED <<table, ui, app, legacy, migrated, mem, editing, nextId>>

\* _upsert_entry(updated): insert if the id is not found, replace if it is;
\* an entry passed without id gets a new one. It returns nothing.
HUpsertEntry ==
    /\ HIdle
    /\ \E i \in 0..(nextId - 1), t \in Stamps, o \in AtomicOutcomes :
         LET f1 == EnsureStorageReady(disk)
             entries == ReadEntriesJson(f1)
             entry_id == IF i = 0 THEN nextId ELSE i
             updated == HRecord(entry_id, t)
             hits == {k \in Indices(entries) : entries[k].id = entry_id}
             first == CHOOSE k \in hits : \A j \in hits : k <= j
         IN
         /\ i = 0 => nextId <= MaxId
         /\ hits = {} => Len(entries) < MaxLen
         /\ nextId' = IF i = 0 THEN nextId + 1 ELSE nextId
         /\ HFinish("_upsert_entry", updated, f1,
                    IF hits # {} THEN [entries EXCEPT ![first] = updated]
                    ELSE Append(entries, updated),
                    TRUE, "None", FALSE, o)
    /\ UNCHANGED <<table, ui, app, legacy, migrated, mem, editing>>

\* MainWindow._save_entry: validate the form, build the record (new id),
\* read, append, write; an OSError is shown in a message box
HSaveEntry ==
    /\ HIdle
    /\ \E named \in BOOLEAN, t \in Stamps, o \in AtomicOutcomes :
         IF ~named THEN
             \* "Missing medication name"
             /\ o = "ok"
             /\ UNCHANGED <<disk, nextId>>
             /\ Return("_save_entry", [named |-> FALSE], "None", <<>>, "warning")
         ELSE
             LET f1 == EnsureStorageReady(disk)
                 entries == ReadEntriesJson(f1)
                 record == HRecord(nextId, t)
             IN
             /\ nextId <= MaxId
             /\ Len(entries) < MaxLen
             /\ nextId' = nextId + 1
             /\ HFinish("_save_entry", record, f1, Append(entries, record), TRUE,
                        "None", TRUE, o)
    /\ UNCHANGED <<table, ui, app, legacy, migrated, mem, editing>>

HRTNext ==
    \/ HLoadEntries
    \/ HDeleteEntryById
    \/ HUpsertEntry
    \/ HSaveEntry

(***************************************************************************)
(* Programs that keep the sequence in memory and rewrite the file from it  *)
(***************************************************************************)
\* The end of a handler that has changed the in-memory sequence to newMem and
\* now saves it. `atomic` says how the program writes; `handled` whether the
\* handler catches the write's OSError and shows it (otherwise it escapes).
SaveAndFinish(name, a, newMem, newEditing, atomic, handled, r, n, o) ==
    /\ disk' = IF atomic THEN AtomicWrite(disk, newMem, o)
                         ELSE DirectWrite(disk, newMem, o)
    /\ IF IsCrash(o) THEN
           /\ mem' = <<>> /\ editing' = ""
           /\ Die(name, disk)
       ELSE
           /\ mem' = newMem /\ editing' = newEditing
           /\ IF IsFail(o) THEN
                  Return(name, NoArg, IF handled THEN "None" ELSE "OSError", <<>>,
                         IF handled THEN "critical" ELSE "")
              ELSE Return(name, a, r, <<>>, n)

\* MedicationTracker._refresh_table with no filter set: one row per entry,
\* its first cell the entry's `when`
MedRows(entries) == [i \in 1..Len(entries) |-> entries[i].when]
\* The rows after a handler that ends with its refresh: an exception that
\* escapes from the save skips the refresh and leaves the rows as they were.
TableAfter(rows) ==
    IF crashed' THEN <<>> ELSE IF ret' = "OSError" THEN table ELSE rows

\* A handler that returns without touching the sequence or the file.
NoEffect(name, a, r, n) ==
    /\ UNCHANGED <<disk, mem, editing>>
    /\ Return(name, a, r, <<>>, n)

DateRank(d) == IF d = "2024-01-01" THEN 1 ELSE 2

(***************************************************************************)
(* Resource manager: src/Resource manager/r-m.py, class LinkStorage        *)
(***************************************************************************)
Titles == {"a", "b"}
Urls == {"u", "v"}
TitleInputs == Titles \cup {" "}
UrlInputs == Urls \cup {" u", ""}
\* str.strip() on the inputs above
Strip(x) == CASE x = " " -> ""
              [] x = " u" -> "u"
              [] OTHER -> x
Link(t, u) == [title |-> t, url |-> u]

\* LinkStorage.load: [] for a missing file, for an empty one (read_text() or
\* "[]"), and for anything json.loads rejects; items without title or url are
\* dropped.
LinkLoad(f) ==
    IF f.kind = "list"
    THEN LET kept == SelectSeq(f.recs, LAMBDA it : Strip(it.title) # "" /\ Strip(it.url) # "")
         IN  [i \in Indices(kept) |-> Link(Strip(kept[i].title), Strip(kept[i].url))]
    ELSE <<>>

FirstWithUrl(data, url, skip) ==
    LET hits == {i \in Indices(data) : i # skip /\ Strip(data[i].url) = url}
    IN  IF hits = {} THEN 0 ELSE CHOOSE i \in hits : \A j \in hits : i <= j

\* An add_link that would append without looking for the URL.
AddLinkAppending(data, title, url) ==
    LET t == Strip(title)
        u == Strip(url)
    IN  IF t = "" \/ u = "" THEN [data |-> data, save |-> FALSE, ret |-> "None"]
        ELSE [data |-> Append(data, Link(t, u)), save |-> TRUE, ret |-> "None"]

\* LinkStorage.add_link: what the data becomes and whether save() is called
AddLink(data, title, url) ==
    LET t == Strip(title)
        u == Strip(url)
        k == FirstWithUrl(data, u, 0)
    IN  IF t = "" \/ u = "" THEN [data |-> data, save |-> FALSE, ret |-> "None"]
        ELSE IF k # 0 THEN
            [data |-> [data EXCEPT ![k].title = t], save |-> TRUE, ret |-> "None"]
        ELSE [data |-> Append(data, Link(t, u)), save |-> TRUE, ret |-> "None"]

\* LinkStorage.remove_link (indices count from 1 here, from 0 in the source)
RemoveLink(data, index) ==
    IF index \in Indices(data)
    THEN [data |-> SeqRemove(data, index), save |-> TRUE, ret |-> "None"]
    ELSE [data |-> data, save |-> FALSE, ret |-> "None"]

\* An update_link that would not check the stripped title and url for blanks.
UpdateLinkUnchecked(data, index, title, url) ==
    LET t == Strip(title)
        u == Strip(url)
        k == FirstWithUrl(data, u, index)
    IN  IF index \notin Indices(data) THEN [data |-> data, save |-> FALSE, ret |-> "False"]
        ELSE IF k # 0 THEN
            [data |-> SeqRemove([data EXCEPT ![k].title = t], index),
             save |-> TRUE, ret |-> "True"]
        ELSE [data |-> [data EXCEPT ![index] = Link(t, u)], save |-> TRUE, ret |-> "True"]

\* LinkStorage.update_link
UpdateLink(data, index, title, url) ==
    LET t == Strip(title)
        u == Strip(url)
        k == FirstWithUrl(data, u, index)
    IN  IF index \notin Indices(data) THEN [data |-> data, save |-> FALSE, ret |-> "False"]
        ELSE IF t = "" \/ u = "" THEN [data |-> data, save |-> FALSE, ret |-> "False"]
        ELSE IF k # 0 THEN
            [data |-> SeqRemove([data EXCEPT ![k].title = t], index),
             save |-> TRUE, ret |-> "True"]
        ELSE [data |-> [data EXCEPT ![index] = Link(t, u)], save |-> TRUE, ret |-> "True"]

LIdle == app = "Links" /\ running

LinkFinish(name, a, res, o) ==
    IF res.save
    THEN SaveAndFinish(name, a, res.data, "", FALSE, FALSE, res.ret, "", o)
    ELSE o = "ok" /\ NoEffect(name, a, res.ret, "")

LAddLink ==
    /\ LIdle
    /\ \E title \in TitleInputs, url \in UrlInputs, o \in WriteOutcomes :
         LET res == AddLink(mem, title, url) IN
         /\ Len(res.data) <= MaxLen
         /\ LinkFinish("add_link", [title |-> title, url |-> url], res, o)
    /\ UNCHANGED <<table, ui, app, legacy, migrated, nextId>>

LRemoveLink ==
    /\ LIdle
    \* an index below the list, every index in it, and one above it
    /\ \E index \in 0..(Len(mem) + 1), o \in WriteOutcomes :
         LinkFinish("remove_link", [index |-> index], RemoveLink(mem, index), o)
    /\ UNCHANGED <<table, ui, app, legacy, migrated, nextId>>

LUpdateLink ==
    /\ LIdle
    /\ \E index \in 0..(Len(mem) + 1), title \in TitleInputs, url \in UrlInputs,
          o \in WriteOutcomes :
         LinkFinish("update_link", [index |-> index, title |-> title, url |-> url],
                    UpdateLink(mem, index, title, url), o)
    /\ UNCHANGED <<table, ui, app, legacy, migrated, nextId>>

LinksNext ==
    \/ LAddLink
    \/ LRemoveLink
    \/ LUpdateLink

(***************************************************************************)
(* Cycle Tracker: src/Cycle Tracker/C-T.py                                 *)
(***************************************************************************)
CycleNotes == {"x"}
CycleEntry(s, e, n) == [start_date |-> s, end_date |-> e, notes |-> n]

\* entries.sort(key=start_date): a stable ascending sort
RECURSIVE InsertByStart(_, _)
InsertByStart(e, s) ==
    IF s = <<>> THEN <<e>>
    ELSE IF DateRank(Head(s).start_date) <= DateRank(e.start_date)
         THEN <<Head(s)>> \o InsertByStart(e, Tail(s))
         ELSE <<e>> \o s
RECURSIVE SortByStart(_)
SortByStart(s) ==
    IF s = <<>> THEN <<>>
    ELSE InsertByStart(s[Len(s)], SortByStart(SubSeq(s, 1, Len(s) - 1)))

\* CycleStorage.load
CycleLoad(f) == IF f.kind = "list" THEN SortByStart(f.recs) ELSE <<>>

\* A get_entry that would not compare the two dates.
GetEntryUnchecked(start, end, notes) ==
    [ok |-> TRUE, entry |-> CycleEntry(start, end, notes)]

\* CycleDialog.get_entry: no entry (ok = FALSE) when the end date is before the start
GetEntry(start, end, notes) ==
    IF DateRank(end) < DateRank(start) THEN [ok |-> FALSE, entry |-> CycleEntry(start, end, notes)]
    ELSE [ok |-> TRUE, entry |-> CycleEntry(start, end, notes)]

CIdle == app = "Cycle" /\ running

\* on_add (on_quick_add is the same code)
COnAdd ==
    /\ CIdle
    /\ \E start \in Dates, end \in Dates, notes \in CycleNotes, o \in WriteOutcomes :
         LET g == GetEntry(start, end, notes) IN
         IF ~g.ok THEN
             o = "ok" /\ NoEffect("on_add", g.entry, "None", "warning")
         ELSE
             /\ Len(mem) < MaxLen
             /\ SaveAndFinish("on_add", g.entry, SortByStart(Append(mem, g.entry)), "",
                              FALSE, TRUE, "None", "", o)
    /\ UNCHANGED <<table, ui, app, legacy, migrated, nextId>>

COnEdit ==
    /\ CIdle
    /\ \E idx \in Indices(mem), start \in Dates, end \in Dates, notes \in CycleNotes,
          o \in WriteOutcomes :
         LET g == GetEntry(start, end, notes) IN
         IF ~g.ok THEN
             o = "ok" /\ NoEffect("on_edit", g.entry, "None", "warning")
         ELSE
             SaveAndFinish("on_edit", g.entry, SortByStart([mem EXCEPT ![idx] = g.entry]),
                           "", FALSE, TRUE, "None", "", o)
    /\ UNCHANGED <<table, ui, app, legacy, migrated, nextId>>

COnDelete ==
    /\ CIdle
    /\ \E idx \in Indices(mem), o \in WriteOutcomes :
         SaveAndFinish("on_delete", [index |-> idx], SeqRemove(mem, idx), "",
                       FALSE, TRUE, "None", "", o)
    /\ UNCHANGED <<table, ui, app, legacy, migrated, nextId>>

COnReload ==
    /\ CIdle
    /\ mem' = CycleLoad(disk)
    /\ UNCHANGED <<disk, editing>>
    /\ Return("on_reload", NoArg, "None", <<>>, "")
    /\ UNCHANGED <<table, ui, app, legacy, migrated, nextId>>

CycleNext ==
    \/ COnAdd
    \/ COnEdit
    \/ COnDelete
    \/ COnReload

(***************************************************************************)
(* Journey Journal: src/Journey Journal/JJ.py, class HRTJournalWindow      *)
(***************************************************************************)
Moods == {"", "calm"}
Notes == {"", "n"}
JournalEntry(d, m, n) == [entry_date |-> d, mood |-> m, notes |-> n]

\* _sort_entries: entries.sort(key=entry_date, reverse=True), stable
RECURSIVE InsertByDateDesc(_, _)
InsertByDateDesc(e, s) ==
    IF s = <<>> THEN <<e>>
    ELSE IF DateRank(Head(s).entry_date) >= DateRank(e.entry_date)
         THEN <<Head(s)>> \o InsertByDateDesc(e, Tail(s))
         ELSE <<e>> \o s
RECURSIVE SortEntries(_)
SortEntries(s) ==
    IF s = <<>> THEN <<>>
    ELSE InsertByDateDesc(s[Len(s)], SortEntries(SubSeq(s, 1, Len(s) - 1)))

\* _find_entry_index_by_date: 0 stands for the source's -1
FindEntryIndexByDate(entries, d) ==
    LET hits == {i \in Indices(entries) : entries[i].entry_date = d}
    IN  IF hits = {} THEN 0 ELSE CHOOSE i \in hits : \A j \in hits : i <= j

\* _load_data: the entries, and whether "Load failed" is shown
JJLoadData(f) ==
    CASE f.kind = "missing" -> [entries |-> <<>>, notice |-> ""]
      [] f.kind = "list" -> [entries |-> f.recs, notice |-> ""]
      [] OTHER -> [entries |-> <<>>, notice |-> "warning"]

JJIdle == app = "JJ" /\ running

\* add_entry
JJAddEntry ==
    /\ JJIdle
    /\ \E d \in Dates, mood \in Moods, notes \in Notes, replace \in BOOLEAN,
          o \in AtomicOutcomes :
         LET entry == JournalEntry(d, mood, notes)
             existing_idx == FindEntryIndexByDate(mem, d)
         IN
         IF mood = "" /\ notes = "" THEN
             \* "Missing info"
             o = "ok" /\ replace /\ NoEffect("add_entry", entry, "None", "warning")
         ELSE IF existing_idx # 0 /\ ~replace THEN
             o = "ok" /\ NoEffect("add_entry", entry, "None", "")
         ELSE
             /\ existing_idx # 0 \/ replace
             /\ existing_idx = 0 => Len(mem) < MaxLen
             /\ SaveAndFinish("add_entry", entry,
                              SortEntries(IF existing_idx # 0
                                          THEN [mem EXCEPT ![existing_idx] = entry]
                                          ELSE Append(mem, entry)),
                              "", TRUE, TRUE, "None", "", o)
    /\ UNCHANGED <<table, ui, app, legacy, migrated, nextId>>

\* delete_selected, one row selected and the question answered Yes
JJDeleteSelected ==
    /\ JJIdle
    /\ \E row \in Indices(mem), o \in AtomicOutcomes :
         SaveAndFinish("delete_selected", [index |-> row], SeqRemove(mem, row), "",
                       TRUE, TRUE, "None", "", o)
    /\ UNCHANGED <<table, ui, app, legacy, migrated, nextId>>

JJNext ==
    \/ JJAddEntry
    \/ JJDeleteSelected

(***************************************************************************)
(* Medication log: src/HRTjourneytracker/modules/medication_tracker.py     *)
(***************************************************************************)
MedEntry(w, m) == [when |-> w, meds |-> m]
\* the form's rows: "" stands for no row with a medication name
MedInputs == Vals \cup {""}

\* _entries.sort(key=when, reverse=True), stable
RECURSIVE InsertByWhenDesc(_, _)
InsertByWhenDesc(e, s) ==
    IF s = <<>> THEN <<e>>
    ELSE IF DateRank(Head(s).when) >= DateRank(e.when)
         THEN <<Head(s)>> \o InsertByWhenDesc(e, Tail(s))
         ELSE <<e>> \o s
RECURSIVE SortByWhenDesc(_)
SortByWhenDesc(s) ==
    IF s = <<>> THEN <<>>
    ELSE InsertByWhenDesc(s[Len(s)], SortByWhenDesc(SubSeq(s, 1, Len(s) - 1)))

\* MedicationTracker._load
MedLoad(f) == IF f.kind = "list" THEN SortByWhenDesc(f.recs) ELSE <<>>

\* _find_entry_index_by_when: 0 stands for the source's None
FindEntryIndexByWhen(entries, w) ==
    LET hits == {i \in Indices(entries) : entries[i].when = w}
    IN  IF hits = {} THEN 0 ELSE CHOOSE i \in hits : \A j \in hits : i <= j

\* the entries after _on_log_entry's insert or replace, before the sort
LogEntry(entries, edit_when, new_entry) ==
    IF edit_when # "" THEN
        LET idx == FindEntryIndexByWhen(entries, edit_when) IN
        IF idx = 0 THEN Append(entries, new_entry)
        ELSE [entries EXCEPT ![idx] = new_entry]
    ELSE Append(entries, new_entry)

MIdle == app = "Med" /\ running

\* _on_log_entry
MOnLogEntry ==
    /\ MIdle
    /\ \E when \in Dates, meds \in MedInputs, o \in WriteOutcomes :
         IF meds = "" THEN
             /\ o = "ok" /\ NoEffect("_on_log_entry", MedEntry(when, meds), "None", "")
             /\ table' = table
         ELSE
             LET new_entry == MedEntry(when, meds)
                 entries == LogEntry(mem, editing, new_entry)
             IN
             /\ Len(entries) <= MaxLen
             /\ SaveAndFinish("_on_log_entry", new_entry, SortByWhenDesc(entries), "",
                              FALSE, FALSE, "None", "", o)
             /\ table' = TableAfter(MedRows(mem'))
    /\ UNCHANGED <<ui, app, legacy, migrated, nextId>>

\* _edit_selected: the selected row's date becomes the entry being edited
MEditSelected ==
    /\ MIdle
    /\ \E row \in Indices(table) :
         LET when == table[row] IN
         /\ editing' = IF FindEntryIndexByWhen(mem, when) = 0 THEN editing ELSE when
         /\ UNCHANGED <<disk, mem, table>>
         /\ Return("_edit_selected", [when |-> when, row |-> row], "None", <<>>, "")
    /\ UNCHANGED <<ui, app, legacy, migrated, nextId>>

\* _cancel_edit_mode
MCancelEditMode ==
    /\ MIdle
    /\ editing # ""
    /\ editing' = ""
    /\ UNCHANGED <<disk, mem>>
    /\ Return("_cancel_edit_mode", NoArg, "None", <<>>, "")
    /\ UNCHANGED <<table, ui, app, legacy, migrated, nextId>>

\* _delete_selected, the question answered Yes
MDeleteSelected ==
    /\ MIdle
    /\ \E row \in Indices(table), o \in WriteOutcomes :
         LET when == table[row]
             idx == FindEntryIndexByWhen(mem, when)
         IN
         IF idx = 0 THEN
             /\ o = "ok" /\ NoEffect("_delete_selected", [when |-> when], "None", "")
             /\ table' = table
         ELSE
             /\ SaveAndFinish("_delete_selected", [when |-> when], SeqRemove(mem, idx),
                              IF editing = when THEN "" ELSE editing,
                              FALSE, FALSE, "None", "", o)
             /\ table' = TableAfter(MedRows(mem'))
    /\ UNCHANGED <<ui, app, legacy, migrated, nextId>>

MedNext ==
    \/ MOnLogEntry
    \/ MEditSelected
    \/ MCancelEditMode
    \/ MDeleteSelected

(***************************************************************************)
(* Journal: src/HRTjourneytracker/modules/journal.py, class Journal        *)
(* An entry is [id, updated_at, title]; the title stands for everything    *)
(* the editor holds (title, tags, body).                                    *)
(***************************************************************************)
EditorTexts == {"", "x"}
UiInit == [current_id |-> 0, dirty |-> FALSE, safe_mode |-> FALSE, title |-> ""]
JournalRecord(i, t, x) == [id |-> i, updated_at |-> t, title |-> x]

\* _entries.sort(key=updated_at, reverse=True), stable
RECURSIVE InsertByUpdatedDesc(_, _)
InsertByUpdatedDesc(e, s) ==
    IF s = <<>> THEN <<e>>
    ELSE IF StampRank(Head(s).updated_at) >= StampRank(e.updated_at)
         THEN <<Head(s)>> \o InsertByUpdatedDesc(e, Tail(s))
         ELSE <<e>> \o s
RECURSIVE SortByUpdatedDesc(_)
SortByUpdatedDesc(s) ==
    IF s = <<>> THEN <<>>
    ELSE InsertByUpdatedDesc(s[Len(s)], SortByUpdatedDesc(SubSeq(s, 1, Len(s) - 1)))

\* Journal._load
JournalLoad(f) == IF f.kind = "list" THEN SortByUpdatedDesc(f.recs) ELSE <<>>

\* datetime.now().isoformat(timespec="seconds"): the saves of one behaviour
\* fall within one second of the clock
NowChoices(entries) == {"T1"}

\* Journal._find: the index of the entry with this id, 0 for None
Find(entries, eid) ==
    LET hits == {i \in Indices(entries) : entries[i].id = eid}
    IN  IF hits = {} THEN 0 ELSE CHOOSE i \in hits : \A j \in hits : i <= j

\* _load_into_editor
LoadIntoEditor(entries, u, eid) ==
    LET k == Find(entries, eid) IN
    IF k = 0 THEN [u EXCEPT !.current_id = eid]
    ELSE [u EXCEPT !.current_id = eid, !.title = entries[k].title, !.dirty = FALSE]

\* A save that would keep only the current entry.
SaveCurrentAlone(entries, u, now) ==
    LET k == Find(entries, u.current_id) IN
    IF u.safe_mode \/ u.current_id = 0 \/ k = 0
    THEN [save |-> FALSE, entries |-> entries]
    ELSE [save |-> TRUE,
          entries |-> <<[entries[k] EXCEPT !.title = u.title, !.updated_at = now]>>]

\* _save_current up to its call of _save_all: the entries it would write
SaveCurrent(entries, u, now) ==
    LET k == Find(entries, u.current_id) IN
    IF u.safe_mode \/ u.current_id = 0 \/ k = 0
    THEN [save |-> FALSE, entries |-> entries]
    ELSE [save |-> TRUE,
          entries |-> SortByUpdatedDesc([entries EXCEPT ![k].title = u.title,
                                                        ![k].updated_at = now])]

\* The end of a Journal handler: _save_all when `save`, and what the editor
\* holds once the handler returns (uOk) or once the write has raised (uFail).
JournalFinish(name, a, save, entries, uOk, uFail, o) ==
    /\ disk' = IF save THEN DirectWrite(disk, entries, o) ELSE disk
    /\ ~save => o = "ok"
    /\ UNCHANGED editing
    /\ IF IsCrash(o) THEN
           /\ mem' = <<>> /\ ui' = UiInit
           /\ Die(name, disk)
       ELSE IF IsFail(o) THEN
           /\ mem' = entries /\ ui' = uFail
           /\ Return(name, NoArg, "OSError", <<>>, "")
       ELSE
           /\ mem' = entries /\ ui' = uOk
           /\ Return(name, a, "None", <<>>, "")

\* A _new_entry that would leave the new entry in memory only.
NewEntryUnsaved(entries, u, eid, now) ==
    LET u1 == [u EXCEPT !.current_id = eid, !.dirty = TRUE]
    IN  [save |-> FALSE, entries |-> <<JournalRecord(eid, now, "")>> \o entries,
         uOk |-> u1, uFail |-> u1]

\* _new_entry
NewEntry(entries, u, eid, now) ==
    LET added == <<JournalRecord(eid, now, "")>> \o entries
        u1 == [u EXCEPT !.current_id = eid, !.dirty = TRUE]
        sc == SaveCurrent(added, u1, now)
    IN  [save |-> sc.save, entries |-> sc.entries,
         uOk |-> IF sc.save THEN [u1 EXCEPT !.dirty = FALSE] ELSE u1,
         uFail |-> u1]

JnIdle == app = "Journal" /\ running

\* Journal.__init__: _load, then select the first entry or make a new one
JnStart ==
    /\ app = "Journal" /\ ~running
    /\ LET entries == JournalLoad(disk) IN
       IF entries # <<>> THEN
           /\ nextId' = nextId
           /\ JournalFinish("start", NoArg, FALSE, entries,
                            LoadIntoEditor(entries, UiInit, entries[1].id), UiInit, "ok")
       ELSE
           /\ nextId <= MaxId
           /\ nextId' = nextId + 1
           /\ \E now \in NowChoices(entries), o \in WriteOutcomes :
                LET n == NewEntry(entries, UiInit, nextId, now) IN
                JournalFinish("start", NoArg, n.save, n.entries, n.uOk, n.uFail, o)
    /\ UNCHANGED <<table, app, legacy, migrated>>

JnNewEntry ==
    /\ JnIdle
    /\ Len(mem) < MaxLen
    /\ nextId <= MaxId
    /\ nextId' = nextId + 1
    /\ \E now \in NowChoices(mem), o \in WriteOutcomes :
         LET n == NewEntry(mem, ui, nextId, now) IN
         JournalFinish("_new_entry", NoArg, n.save, n.entries, n.uOk, n.uFail, o)
    /\ UNCHANGED <<table, app, legacy, migrated>>

\* _delete_entry; when the last entry goes, _new_entry follows and writes again
JnDeleteEntry ==
    /\ JnIdle
    /\ LET rest == SelectSeq(mem, LAMBDA e : e.id # ui.current_id)
           u0 == [ui EXCEPT !.current_id = 0]
       IN
       IF ui.current_id = 0 THEN
           /\ nextId' = nextId
           /\ JournalFinish("_delete_entry", NoArg, FALSE, mem, ui, ui, "ok")
       ELSE IF rest # <<>> THEN
           /\ nextId' = nextId
           /\ \E o \in WriteOutcomes :
                JournalFinish("_delete_entry", NoArg, TRUE, rest,
                              LoadIntoEditor(rest, u0, rest[1].id), u0, o)
       ELSE
           \E o1 \in WriteOutcomes :
             IF o1 # "ok" THEN
                 /\ nextId' = nextId
                 /\ JournalFinish("_delete_entry", NoArg, TRUE, rest, u0, u0, o1)
             ELSE
                 /\ nextId <= MaxId
                 /\ nextId' = nextId + 1
                 /\ \E now \in NowChoices(mem), o2 \in WriteOutcomes :
                      LET n == NewEntry(rest, u0, nextId, now) IN
                      IF n.save THEN
                          \* the first write has emptied the file before the second
                          /\ disk' = DirectWrite(Array(rest), n.entries, o2)
                          /\ UNCHANGED editing
                          /\ IF IsCrash(o2) THEN
                                 /\ mem' = <<>> /\ ui' = UiInit
                                 /\ Die("_delete_entry", Array(rest))
                             ELSE
                                 /\ mem' = n.entries
                                 /\ ui' = IF IsFail(o2) THEN n.uFail ELSE n.uOk
                                 /\ Return("_delete_entry", NoArg,
                                           IF IsFail(o2) THEN "OSError" ELSE "None", <<>>, "")
                      ELSE
                          /\ o2 = "ok"
                          /\ disk' = Array(rest)
                          /\ UNCHANGED editing
                          /\ mem' = n.entries /\ ui' = n.uOk
                          /\ Return("_delete_entry", NoArg, "None", <<>>, "")
    /\ UNCHANGED <<table, app, legacy, migrated>>

\* the user types in the editor: textChanged -> _mark_dirty
JnEdit ==
    /\ JnIdle
    /\ \E text \in EditorTexts :
         /\ text # ui.title
         /\ nextId' = nextId
         /\ JournalFinish("_mark_dirty", [text |-> text], FALSE, mem,
                          [ui EXCEPT !.title = text,
                                     !.dirty = IF ui.safe_mode THEN @ ELSE TRUE],
                          ui, "ok")
    /\ UNCHANGED <<table, app, legacy, migrated>>

\* A timer whose tick would never find anything to save.
AutosaveNever(u) == FALSE

\* _autosave_tick's conditions for calling _save_current
AutosaveDue(u) == ~u.safe_mode /\ u.dirty /\ u.current_id # 0

\* _autosave_tick, every 1500 ms
JnAutosaveTick ==
    /\ JnIdle
    /\ nextId' = nextId
    /\ IF ~AutosaveDue(ui) THEN
           JournalFinish("_autosave_tick", NoArg, FALSE, mem, ui, ui, "ok")
       ELSE
           \E now \in NowChoices(mem), o \in WriteOutcomes :
             LET sc == SaveCurrent(mem, ui, now) IN
             JournalFinish("_autosave_tick", NoArg, sc.save, sc.entries,
                           IF sc.save THEN [ui EXCEPT !.dirty = FALSE] ELSE ui, ui, o)
    /\ UNCHANGED <<table, app, legacy, migrated>>

\* _on_select: the user picks another entry in the list
JnOnSelect ==
    /\ JnIdle
    /\ nextId' = nextId
    /\ \E eid \in {mem[i].id : i \in Indices(mem)} \ {ui.current_id} :
         IF ui.current_id # 0 /\ ui.dirty /\ ~ui.safe_mode THEN
             \E now \in NowChoices(mem), o \in WriteOutcomes :
               LET sc == SaveCurrent(mem, ui, now) IN
               JournalFinish("_on_select", [id |-> eid], sc.save, sc.entries,
                             LoadIntoEditor(sc.entries,
                                            IF sc.save THEN [ui EXCEPT !.dirty = FALSE] ELSE ui,
                                            eid),
                             ui, o)
         ELSE
             JournalFinish("_on_select", [id |-> eid], FALSE, mem,
                           LoadIntoEditor(mem, ui, eid), ui, "ok")
    /\ UNCHANGED <<table, app, legacy, migrated>>

\* set_safe_mode
JnSetSafeMode ==
    /\ JnIdle
    /\ nextId' = nextId
    /\ \E enabled \in BOOLEAN :
         /\ enabled # ui.safe_mode
         /\ JournalFinish("set_safe_mode", [enabled |-> enabled], FALSE, mem,
                          [ui EXCEPT !.safe_mode = enabled], ui, "ok")
    /\ UNCHANGED <<table, app, legacy, migrated>>

JournalNext ==
    \/ JnStart
    \/ JnNewEntry
    \/ JnDeleteEntry
    \/ JnEdit
    \/ JnAutosaveTick
    \/ JnOnSelect
    \/ JnSetSafeMode

(***************************************************************************)
(* Two process instances of Journey on one store file:                     *)
(* src/Journey/storage.py, upsert_entry step by step. Every write succeeds *)
(* here; what varies is how the two instances' steps interleave.           *)
(***************************************************************************)
Procs == {"p1", "p2"}
Other(p) == IF p = "p1" THEN "p2" ELSE "p1"

\* An instance outside upsert_entry. `done` is the date of the entry its last
\* completed call wrote ("" = no call yet).
ProcIdle == [pc |-> "idle", entry |-> BlankDated, data |-> <<>>, phase |-> "", done |-> ""]

\* The entries the instances save: one per date.
PEntries == {e \in JEntries : e.val = "x"}

\* upsert_entry's change of the loaded list: replace the first entry of that
\* date, else append.
Upsert(data, e) ==
    LET hits == {i \in Indices(data) : data[i].date = e.date} IN
    IF hits # {} THEN [data EXCEPT ![CHOOSE i \in hits : \A j \in hits : i <= j] = e]
    ELSE Append(data, e)

\* os.open(lock_path, O_CREAT | O_EXCL | O_WRONLY) succeeds when the lock file
\* does not exist.
CreateExclAlways(l) == TRUE

CreateExcl(l) == ~l

\* The write section of _write_data: the temp-file write and the rename.
InWriteSection(p) == proc[p].pc \in {"write", "replace"}

\* upsert_entry(entry) is called
PUpsertEntry(p) ==
    /\ proc[p].pc = "idle"
    /\ nextId <= MaxId
    /\ \E e \in PEntries :
         proc' = [proc EXCEPT ![p] = [@ EXCEPT !.pc = "load", !.entry = e]]
    /\ overlap' = (proc[Other(p)].pc # "idle")
    /\ UNCHANGED <<disk, nextId, lock, timedOut>>
    /\ UNCHANGED notConc

\* load_data reads the file. Without an upgrade it returns and upsert_entry
\* goes on to _write_data with its changed list; with one, load_data itself
\* calls _write_data with the upgraded list first.
PLoadData(p) ==
    /\ proc[p].pc = "load"
    /\ \E now \in Nows :
         LET l == LoadData(disk, FreshIds(disk.recs, nextId), now, "ok") IN
         /\ proc' = [proc EXCEPT ![p] =
                [@ EXCEPT !.pc = "acquire",
                          !.phase = IF l.wrote THEN "upgrade" ELSE "upsert",
                          !.data = IF l.wrote THEN l.data
                                   ELSE Upsert(l.data, proc[p].entry)]]
         /\ nextId' = IF l.wrote THEN nextId + UsedIds(disk.recs) ELSE nextId
    /\ UNCHANGED <<disk, lock, timedOut, overlap>>
    /\ UNCHANGED notConc

\* _acquire_lock: the exclusive create succeeds, or the lock file has been
\* there for timeout_s and the instance goes on without it. (A failed try
\* before the timeout changes nothing and is not a step.)
PAcquireLock(p) ==
    /\ proc[p].pc = "acquire"
    /\ proc' = [proc EXCEPT ![p].pc = "write"]
    /\ IF CreateExcl(lock) THEN lock' = TRUE /\ UNCHANGED timedOut
       ELSE UNCHANGED lock /\ timedOut' = TRUE
    /\ UNCHANGED <<disk, nextId, overlap>>
    /\ UNCHANGED notConc

\* tempfile.mkstemp and json.dump: the temp file's name is the instance's own
PWriteTemp(p) ==
    /\ proc[p].pc = "write"
    /\ proc' = [proc EXCEPT ![p].pc = "replace"]
    /\ UNCHANGED <<disk, nextId, lock, timedOut, overlap>>
    /\ UNCHANGED notConc

\* os.replace(tmp_path, file_path)
PReplace(p) ==
    /\ proc[p].pc = "replace"
    /\ disk' = Array(proc[p].data)
    /\ proc' = [proc EXCEPT ![p].pc = "release"]
    /\ UNCHANGED <<nextId, lock, timedOut, overlap>>
    /\ UNCHANGED notConc

\* _release_lock removes the lock file, whoever created it. After load_data's
\* write upsert_entry changes the list and writes again; after its own write
\* it returns.
PReleaseLock(p) ==
    /\ proc[p].pc = "release"
    /\ lock' = FALSE
    /\ proc' = [proc EXCEPT ![p] =
           IF @.phase = "upgrade"
           THEN [@ EXCEPT !.pc = "acquire", !.phase = "upsert",
                          !.data = Upsert(proc[p].data, proc[p].entry)]
           ELSE [ProcIdle EXCEPT !.done = proc[p].entry.date]]
    /\ UNCHANGED <<disk, nextId, timedOut, overlap>>
    /\ UNCHANGED notConc

(***************************************************************************)
(* Voice Trainer: src/Voice-Trainer/V-T.py, MainWindow and its two worker  *)
(* threads. A path is <<kind, counter>> (the timestamp in the file name is *)
(* left out).                                                              *)
(***************************************************************************)
MaxRecordings == 2       \* recordings of each kind started in one behaviour
CounterModulus == 1000   \* _record_counter and _note_counter wrap here
MinCountdown == 3        \* seconds = max(3, ...), and the spin box's least value

Kinds == {"record", "note"}
NoPath == <<>>
NoneDone == [kind |-> "none", path |-> NoPath]

WinInit ==
    [record_button |-> TRUE, note_button |-> TRUE,
     record_counter |-> 0, note_counter |-> 0,
     last_path |-> NoPath,
     countdown_enabled |-> TRUE,
     timer |-> FALSE,            \* _countdown_timer is running
     remaining |-> 0,            \* _countdown_remaining
     on_done |-> NoneDone]       \* _countdown_on_done: whose _begin_recording, for which path
WorkersInit == [k \in Kinds |-> [state |-> "none", out_path |-> NoPath]]

\* A run() that would swallow the exception of record_clip without a signal.
RunEmitsOnSuccessOnly(k, path, ok) ==
    IF ok THEN <<[kind |-> k, sig |-> "finished", payload |-> path]>> ELSE <<>>

\* RecordWorker.run / VoiceNoteRecordWorker.run: the signal it emits
RunEmits(k, path, ok) ==
    IF ok THEN <<[kind |-> k, sig |-> "finished", payload |-> path]>>
    ELSE <<[kind |-> k, sig |-> "failed", payload |-> "message"]>>

\* _begin_recording: the worker is built with its out_path and started
BeginRecording(ws, d) == [ws EXCEPT ![d.kind] = [state |-> "running", out_path |-> d.path]]

\* _start_countdown(seconds, update_label_fn, on_done_fn) and its first _tick():
\* the window and the workers after the call
StartCountdown(w, ws, d) ==
    IF ~w.countdown_enabled
    THEN [win |-> w, workers |-> BeginRecording(ws, d)]
    ELSE [win |-> [w EXCEPT !.timer = TRUE, !.remaining = MinCountdown - 1, !.on_done = d],
          workers |-> ws]

\* start_recording: the Record button is clicked
VStartRecording ==
    /\ win.record_button
    /\ win.record_counter < MaxRecordings
    /\ LET c == (win.record_counter + 1) % CounterModulus
           w == [win EXCEPT !.record_button = FALSE, !.record_counter = c]
           res == StartCountdown(w, workers, [kind |-> "record", path |-> <<"record", c>>])
       IN  win' = res.win /\ workers' = res.workers
    /\ UNCHANGED signals
    /\ UNCHANGED notVoice

\* start_voice_note_recording: the voice note's Record button is clicked
VStartVoiceNoteRecording ==
    /\ win.note_button
    /\ win.note_counter < MaxRecordings
    /\ IF workers["note"].state = "running" THEN UNCHANGED <<win, workers>>
       ELSE LET c == (win.note_counter + 1) % CounterModulus
                w == [win EXCEPT !.note_button = FALSE, !.note_counter = c]
                res == StartCountdown(w, workers, [kind |-> "note", path |-> <<"note", c>>])
            IN  win' = res.win /\ workers' = res.workers
    /\ UNCHANGED signals
    /\ UNCHANGED notVoice

\* _tick, on the countdown timer's timeout
VCountdownTick ==
    /\ win.timer
    /\ IF win.remaining <= 0
       THEN /\ win' = [win EXCEPT !.timer = FALSE]
            /\ workers' = IF win.on_done.kind = "none" THEN workers
                          ELSE BeginRecording(workers, win.on_done)
       ELSE /\ win' = [win EXCEPT !.remaining = @ - 1]
            /\ UNCHANGED workers
    /\ UNCHANGED signals
    /\ UNCHANGED notVoice

\* on_countdown_settings_changed: the countdown is switched on or off
VCountdownSettingsChanged ==
    /\ win' = [win EXCEPT !.countdown_enabled = ~@]
    /\ UNCHANGED <<workers, signals>>
    /\ UNCHANGED notVoice

\* run(), in the worker thread: record_clip returns or raises
VWorkerRun(k) ==
    /\ workers[k].state = "running"
    /\ \E ok \in BOOLEAN :
         signals' = signals \o RunEmits(k, workers[k].out_path, ok)
    /\ workers' = [workers EXCEPT ![k].state = "ended"]
    /\ UNCHANGED win
    /\ UNCHANGED notVoice

\* The UI thread's event loop delivers the oldest queued signal to its slot:
\* on_record_finished, on_record_failed, on_voice_note_record_finished,
\* on_voice_note_record_failed
VDeliver ==
    /\ signals # <<>>
    /\ LET s == Head(signals) IN
       /\ win' = IF s.kind = "record"
                 THEN [win EXCEPT !.record_button = TRUE,
                                  !.last_path = IF s.sig = "finished" THEN s.payload ELSE @]
                 ELSE [win EXCEPT !.note_button = TRUE]
       /\ workers' = [workers EXCEPT ![s.kind].state = "reported"]
    /\ signals' = Tail(signals)
    /\ UNCHANGED notVoice

(***************************************************************************)
(* The search box of a list view: the Journal's and the Link Manager's     *)
(***************************************************************************)
\* A text is a sequence of characters; "<br>" stands for that run of
\* characters in body_html.
JTitles == {<<"a">>, <<"A", "b">>}
JTagLists == {<<>>, << <<"b">> >>}
JBodies == {<<>>, <<"a", "<br>", "b">>}
LTitles == {<<"a">>, <<"A", "b">>}
LUrls == {<<"b">>, <<"u">>}
\* what the user may have typed into the QLineEdit
SearchTexts == {<<>>, <<"a">>, <<"A">>, <<"b">>, <<" ", "a", " ">>, <<"a", "b">>,
                <<"a", " ", "b">>, <<"b", " ", "a">>, <<"u">>}
JRows == [updated_at : Stamps, title : JTitles, tags : JTagLists, body_html : JBodies]
LRows == [title : LTitles, url : LUrls]
RowLists(S) == UNION {[1..n -> S] : n \in 0..MaxLen}

\* str.lower()
LowerText(t) == [i \in 1..Len(t) |-> IF t[i] = "A" THEN "a" ELSE t[i]]
\* str.strip()
RECURSIVE StripText(_)
StripText(t) ==
    IF t = <<>> THEN t
    ELSE IF Head(t) = " " THEN StripText(Tail(t))
    ELSE IF t[Len(t)] = " " THEN StripText(SubSeq(t, 1, Len(t) - 1))
    ELSE t
\* sep.join(parts)
RECURSIVE JoinText(_, _)
JoinText(parts, sep) ==
    IF parts = <<>> THEN <<>>
    ELSE IF Len(parts) = 1 THEN parts[1]
    ELSE parts[1] \o sep \o JoinText(Tail(parts), sep)
\* q in hay
InText(q, hay) == \E i \in 0..(Len(hay) - Len(q)) : SubSeq(hay, i + 1, i + Len(q)) = q
\* Journal._plain_preview
PlainPreview(html) ==
    [i \in 1..Len(html) |-> IF html[i] \in {"<br>", "<br/>", "</p>", "&nbsp;"} THEN " "
                            ELSE html[i]]
\* the text of the search box as both refreshes read it
SearchQuery(text) == LowerText(StripText(text))

\* matches(e) of Journal._refresh_list
JnHay(e) == LowerText(JoinText(<<e.title, JoinText(e.tags, <<" ">>),
                                 PlainPreview(e.body_html)>>, <<" ">>))
JnMatches(e, q) == q = <<>> \/ InText(q, JnHay(e))
\* the row numbers stand for the entries' ids, which the list items carry
Numbered(rows) == [i \in 1..Len(rows) |-> [id |-> i, updated_at |-> rows[i].updated_at]]
RowIds(s) == [i \in 1..Len(s) |-> s[i].id]
\* the order in which _refresh_list walks the entries
JnListOrder(rows) == RowIds(SortByUpdatedDesc(Numbered(rows)))
\* Journal._refresh_list: the ids of the list items, top to bottom
JnShown(rows, text) ==
    LET q == SearchQuery(text)
        Keep(i) == JnMatches(rows[i], q)
    IN SelectSeq(JnListOrder(rows), Keep)

\* LinkManagerApp.refresh_list: the real_idx of the list items, top to bottom
LkHay(item) == LowerText(StripText(item.title) \o <<"\n">> \o StripText(item.url))
LkSkips(item, q) == q # <<>> /\ ~InText(q, LkHay(item))
LkShown(rows, text) ==
    LET q == SearchQuery(text)
        Keep(i) == ~LkSkips(rows[i], q)
    IN SelectSeq([i \in 1..Len(rows) |-> i], Keep)

\* search_input.textChanged of the Journal, connected to _refresh_list
JnRefreshList ==
    /\ finput.kind = "Journal"
    /\ \E t \in SearchTexts :
         /\ finput' = [finput EXCEPT !.text = t]
         /\ listed' = JnShown(finput.rows, t)
    /\ UNCHANGED notFilter

\* search_input.textChanged of the Link Manager, connected to refresh_list
LkRefreshList ==
    /\ finput.kind = "Links"
    /\ \E t \in SearchTexts :
         /\ finput' = [finput EXCEPT !.text = t]
         /\ listed' = LkShown(finput.rows, t)
    /\ UNCHANGED notFilter

(***************************************************************************)
(* Journey: one _write_data call waiting for the lock file                 *)
(*   src/Journey/storage.py, _acquire_lock                                 *)
(***************************************************************************)
\* Time is counted in sleeps of _acquire_lock: 0.05 s each. timeout_s is 2.0 s.
TimeoutTicks == 40
\* time.sleep(0.05) returns after 0.05 s or later: at most this many ticks
MaxSleepTicks == 2
AcqIdle == [pc |-> "idle", elapsed |-> 0, got |-> FALSE, waited |-> 0]

\* A wait that would give up one sleep too late.
TimedOutLate(elapsed) == elapsed >= TimeoutTicks + MaxSleepTicks

\* (time.time() - start) >= timeout_s
TimedOut(elapsed) == elapsed >= TimeoutTicks

\* _write_data calls _acquire_lock: start = time.time()
AWriteData ==
    /\ acq.pc = "idle"
    /\ acq' = [AcqIdle EXCEPT !.pc = "open"]
    /\ UNCHANGED lock
    /\ UNCHANGED notLock

\* os.open(lock_path, O_CREAT | O_EXCL | O_WRONLY): creates the lock file and
\* returns, or raises FileExistsError
AOpenExcl ==
    /\ acq.pc = "open"
    /\ IF CreateExcl(lock)
       THEN /\ lock' = TRUE
            /\ acq' = [acq EXCEPT !.pc = "write", !.got = TRUE, !.waited = acq.elapsed]
       ELSE /\ lock' = lock
            /\ acq' = [acq EXCEPT !.pc = "exists"]
    /\ UNCHANGED notLock

\* except FileExistsError: past the timeout return without the lock, else sleep
ACheckTimeout ==
    /\ acq.pc = "exists"
    /\ acq' = IF TimedOut(acq.elapsed)
              THEN [acq EXCEPT !.pc = "write", !.got = FALSE, !.waited = acq.elapsed]
              ELSE [acq EXCEPT !.pc = "sleep"]
    /\ UNCHANGED lock
    /\ UNCHANGED notLock

\* time.sleep(0.05)
ASleep ==
    /\ acq.pc = "sleep"
    /\ \E d \in 1..MaxSleepTicks :
         acq' = [acq EXCEPT !.pc = "open", !.elapsed = acq.elapsed + d]
    /\ UNCHANGED lock
    /\ UNCHANGED notLock

\* the temp file is written and renamed, then _release_lock removes the lock
\* file, whoever created it
AWriteAndRelease ==
    /\ acq.pc = "write"
    /\ lock' = FALSE
    /\ acq' = [acq EXCEPT !.pc = "idle"]
    /\ UNCHANGED notLock

\* Another instance creates the lock file, or leaves it behind when it dies
OtherCreatesLock ==
    /\ CreateExcl(lock)
    /\ acq.pc # "write" \/ ~acq.got
    /\ lock' = TRUE
    /\ UNCHANGED acq
    /\ UNCHANGED notLock

\* Another instance removes the lock file in its _release_lock
OtherRemovesLock ==
    /\ lock
    /\ acq.pc # "write" \/ ~acq.got
    /\ lock' = FALSE
    /\ UNCHANGED acq
    /\ UNCHANGED notLock

(***************************************************************************)
(* Journey's settings: src/Journey/settings.py                             *)
(* A value of a settings field is an int or a str; the six fields that     *)
(* load_settings checks against a range or a list are followed.            *)
(***************************************************************************)
MaxUpdates == 2      \* update_settings calls in one behaviour

IntV(n) == [int |-> TRUE, n |-> n, s |-> ""]
StrV(x) == [int |-> FALSE, n |-> 0, s |-> x]
IntFields == {"window_width", "window_height", "default_slider_value",
              "default_tab_index", "autosave_seconds"}
SettingsFields == IntFields \cup {"entries_default_view"}

\* the defaults of the dataclass AppSettings
DefaultOf(f) ==
    CASE f = "window_width" -> IntV(1000)
      [] f = "window_height" -> IntV(700)
      [] f = "default_slider_value" -> IntV(5)
      [] f = "default_tab_index" -> IntV(0)
      [] f = "autosave_seconds" -> IntV(30)
      [] f = "entries_default_view" -> StrV("plain")
AppSettings == [f \in SettingsFields |-> DefaultOf(f)]

\* min_value and max_value of load_settings' _clamp_int calls
MinValue(f) ==
    CASE f = "window_width" -> 600
      [] f = "window_height" -> 400
      [] f = "autosave_seconds" -> 5
      [] OTHER -> 0
MaxValue(f) ==
    CASE f = "window_width" -> 4000
      [] f = "window_height" -> 3000
      [] f = "default_slider_value" -> 10
      [] f = "default_tab_index" -> 50
      [] f = "autosave_seconds" -> 600
      [] OTHER -> 0

\* values a caller may pass, or a settings.json may hold, for a field
SettingsInputs(f) ==
    IF f \in IntFields
    THEN {IntV(MinValue(f) - 1), IntV(MinValue(f)), IntV(MaxValue(f) + 1), StrV("abc")}
    ELSE {StrV("json"), StrV(" JSON "), StrV("xml"), IntV(1)}

\* _coerce_int: int(value), the fallback when int() raises
CoerceInt(value, fallback) == IF value.int THEN value.n ELSE fallback

\* _clamp_int
ClampInt(value, fallback, min_value, max_value) ==
    LET v == CoerceInt(value, fallback)
        v1 == IF min_value > v THEN min_value ELSE v
    IN  IF max_value < v1 THEN max_value ELSE v1

\* str(value).lower().strip() on the values above; str() of an int is its digits
LowerStripView(value) ==
    IF value.int THEN "1"
    ELSE IF value.s = " JSON " THEN "json" ELSE value.s

\* load_settings: the defaults for a missing file and for one that json.loads
\* or the merge rejects; else the file's values, checked and coerced
LoadSettings(file) ==
    IF file.kind # "dict" THEN AppSettings
    ELSE [f \in SettingsFields |->
            IF f \in IntFields
            THEN IntV(ClampInt(file.raw[f], DefaultOf(f).n, MinValue(f), MaxValue(f)))
            ELSE LET view == LowerStripView(file.raw[f])
                 IN  StrV(IF view \in {"plain", "json"} THEN view ELSE DefaultOf(f).s)]

\* get_settings: the cache after the call; <<>> stands for None
GetSettings(cache, file, force_reload) ==
    IF cache = <<>> \/ force_reload THEN <<LoadSettings(file)>> ELSE cache

\* load_settings()
PLoadSettings ==
    /\ prefs' = [prefs EXCEPT !.op = "load_settings", !.got = <<LoadSettings(prefs.file)>>]
    /\ UNCHANGED notPrefs

\* get_settings(force_reload)
PGetSettings ==
    /\ \E force_reload \in BOOLEAN :
         LET c == GetSettings(prefs.cache, prefs.file, force_reload) IN
         prefs' = [prefs EXCEPT !.op = "get_settings", !.cache = c, !.got = c]
    /\ UNCHANGED notPrefs

\* update_settings(**changes), with one keyword: get_settings, merge, build
\* AppSettings, save_settings (write_text may raise), set the cache
PUpdateSettings ==
    /\ prefs.updates < MaxUpdates
    /\ \E f \in SettingsFields : \E v \in SettingsInputs(f) :
       \E o \in {"ok", "fail_open", "fail_write"} :
         LET current == GetSettings(prefs.cache, prefs.file, FALSE)
             new_settings == [current[1] EXCEPT ![f] = v]
         IN  prefs' = IF o = "ok"
                      THEN [file |-> [kind |-> "dict", raw |-> new_settings],
                            cache |-> <<new_settings>>, op |-> "update_settings",
                            got |-> <<new_settings>>, updates |-> prefs.updates + 1]
                      ELSE [file |-> IF o = "fail_open" THEN prefs.file
                                     ELSE [kind |-> "cut", raw |-> <<>>],
                            cache |-> current, op |-> "update_settings",
                            got |-> <<>>, updates |-> prefs.updates + 1]
    /\ UNCHANGED notPrefs

(***************************************************************************)
(* The Medication log's table and text export, for two logs at once:       *)
(*   src/HRTjourneytracker/modules/medication_tracker.py                   *)
(* An entry holds its MedRow list here; the date and medication filters    *)
(* are left at values that let every entry through.                        *)
(***************************************************************************)
MaxMeds == 2         \* medications in one entry

Dosages == {"", "2 mg"}
RowNotes == {"", "n"}
MedRow == [medication : {"E"}, dosage : Dosages, notes : RowNotes]
MedLists == UNION {[1..n -> MedRow] : n \in 0..MaxMeds}
\* a log without entries, or with one entry
ViewLogs == {<<>>} \cup {<<[when |-> "2024-01-01", meds |-> ms]>> : ms \in MedLists}

\* the strings a ", ".join or " | ".join is made of
NonEmpty(texts) == SelectSeq(texts, LAMBDA t : t # "")

\* _refresh_table: the four cells of each row ("****" stands for the four bullets)
RefreshTable(entries, safe_mode) ==
    [r \in 1..Len(entries) |->
        LET meds == entries[r].meds IN
        [when |-> entries[r].when,
         med_names |-> NonEmpty([j \in 1..Len(meds) |-> meds[j].medication]),
         dosages |-> IF safe_mode THEN <<"****">>
                     ELSE NonEmpty([j \in 1..Len(meds) |-> meds[j].dosage]),
         notes |-> IF safe_mode THEN <<"Hidden (Safe Mode)">>
                   ELSE NonEmpty([j \in 1..Len(meds) |-> meds[j].notes])]]

\* _export_txt: the line of one medication
ExportLine(m, safe_mode) ==
    LET dosage == IF safe_mode THEN "****" ELSE m.dosage
        notes == IF safe_mode THEN (IF m.notes # "" THEN "Hidden (Safe Mode)" ELSE "")
                 ELSE m.notes
    IN  <<"  - ", m.medication>>
        \o (IF dosage # "" THEN <<" | Dose: ", dosage>> ELSE <<>>)
        \o (IF notes # "" THEN <<" | Notes: ", notes>> ELSE <<>>)

\* _export_txt: the lines of one entry
ExportEntry(e, safe_mode) ==
    <<<<"Date: ", e.when>>>>
    \o (IF e.meds = <<>> THEN << <<"  (no medications)">> >>
        ELSE [j \in 1..Len(e.meds) |-> ExportLine(e.meds[j], safe_mode)])
    \o << <<>> >>

\* _export_txt: the lines written; <<>> when there is nothing to export
RECURSIVE ExportEntries(_, _)
ExportEntries(entries, safe_mode) ==
    IF entries = <<>> THEN <<>>
    ELSE ExportEntry(Head(entries), safe_mode) \o ExportEntries(Tail(entries), safe_mode)
ExportTxt(entries, safe_mode) ==
    IF entries = <<>> THEN <<>>
    ELSE << <<"Medication Log Export">>, <<"Exported: ">>, <<"Filters: ">>, <<>> >>
         \o ExportEntries(entries, safe_mode)

\* set_safe_mode(enabled), called on both widgets
MvSetSafeMode ==
    /\ \E enabled \in BOOLEAN :
         /\ enabled # views.safe_mode
         /\ views' = [views EXCEPT
                         !.safe_mode = enabled,
                         !.tables = [i \in 1..2 |-> RefreshTable(views.logs[i], enabled)]]
    /\ UNCHANGED notViews

\* _export_txt, clicked on both widgets, a path chosen and the write done
MvExportTxt ==
    /\ views' = [views EXCEPT
                    !.exports = [i \in 1..2 |-> ExportTxt(views.logs[i], views.safe_mode)],
                    !.exported_safe = views.safe_mode]
    /\ UNCHANGED notViews

\* The state of the parts a behaviour does not run
SingleAtRest ==
    /\ app = "Journey"
    /\ running = TRUE
    /\ disk = Missing
    /\ legacy = <<>>
    /\ migrated = 0
    /\ mem = <<>>
    /\ editing = ""
    /\ ui = UiInit
    /\ table = <<>>
    /\ nextId = 1
    /\ op = "init"
    /\ arg = NoArg
    /\ ret = "None"
    /\ loaded = <<>>
    /\ notice = ""
    /\ preWrite = Missing
    /\ crashed = FALSE

ConcAtRest ==
    /\ proc = [p \in Procs |-> ProcIdle]
    /\ lock = FALSE
    /\ timedOut = FALSE
    /\ overlap = FALSE

VoiceAtRest ==
    /\ win = WinInit
    /\ workers = WorkersInit
    /\ signals = <<>>

FilterAtRest ==
    /\ finput = [kind |-> "Journal", rows |-> <<>>, text |-> <<>>]
    /\ listed = <<>>

ExtraAtRest ==
    /\ acq = AcqIdle
    /\ prefs = <<>>
    /\ views = <<>>

\* In a behaviour of one program the other parts do not exist.
OthersNotRun ==
    /\ proc = <<>> /\ lock = FALSE /\ timedOut = FALSE /\ overlap = FALSE
    /\ win = <<>> /\ workers = <<>> /\ signals = <<>>
    /\ finput = <<>> /\ listed = <<>>
    /\ acq = <<>> /\ prefs = <<>> /\ views = <<>>

ConcInit == SingleAtRest /\ ConcAtRest /\ VoiceAtRest /\ FilterAtRest /\ ExtraAtRest

ConcNext ==
    \E p \in Procs :
        \/ PUpsertEntry(p)
        \/ PLoadData(p)
        \/ PAcquireLock(p)
        \/ PWriteTemp(p)
        \/ PReplace(p)
        \/ PReleaseLock(p)

ConcSpec == ConcInit /\ [][ConcNext]_vars

VoiceInit == SingleAtRest /\ ConcAtRest /\ VoiceAtRest /\ FilterAtRest /\ ExtraAtRest

VoiceNext ==
    \/ VStartRecording
    \/ VStartVoiceNoteRecording
    \/ VCountdownTick
    \/ VCountdownSettingsChanged
    \/ \E k \in Kinds : VWorkerRun(k)
    \/ VDeliver

VoiceSpec == VoiceInit /\ [][VoiceNext]_vars

\* A started worker thread runs to the end of run(), and the UI thread's
\* event loop delivers every queued signal.
VoiceFairSpec ==
    /\ VoiceSpec
    /\ \A k \in Kinds : WF_vars(VWorkerRun(k))
    /\ WF_vars(VDeliver)

\* Besides, a running QTimer keeps firing: the countdown's _tick is called
\* every second while the timer runs.
VoiceTimerFairSpec == VoiceFairSpec /\ WF_vars(VCountdownTick)

\* The list view after the entries were loaded and shown with an empty
\* search box
FilterInit ==
    /\ SingleAtRest /\ ConcAtRest /\ VoiceAtRest /\ ExtraAtRest
    /\ \E k \in {"Journal", "Links"} :
         \E rows \in RowLists(IF k = "Journal" THEN JRows ELSE LRows) :
            /\ finput = [kind |-> k, rows |-> rows, text |-> <<>>]
            /\ listed = IF k = "Journal" THEN JnShown(rows, <<>>) ELSE LkShown(rows, <<>>)

FilterNext ==
    \/ JnRefreshList
    \/ LkRefreshList

FilterSpec == FilterInit /\ [][FilterNext]_vars

\* One instance of Journey that writes again and again, beside another
\* instance that may hold the lock file for any length of time
LockInit == SingleAtRest /\ ConcAtRest /\ VoiceAtRest /\ FilterAtRest /\ ExtraAtRest

LockNext ==
    \/ AWriteData
    \/ AOpenExcl
    \/ ACheckTimeout
    \/ ASleep
    \/ AWriteAndRelease
    \/ OtherCreatesLock
    \/ OtherRemovesLock

LockSpec == LockInit /\ [][LockNext]_vars

\* settings.json as it may be found: missing, not JSON, or the defaults with
\* one field edited by hand
PrefsFiles ==
    {[kind |-> "missing", raw |-> <<>>], [kind |-> "notjson", raw |-> <<>>]}
    \cup {[kind |-> "dict", raw |-> [AppSettings EXCEPT ![f] = v]] :
             f \in SettingsFields, v \in UNION {SettingsInputs(g) : g \in SettingsFields}}
PrefsInit ==
    /\ SingleAtRest /\ ConcAtRest /\ VoiceAtRest /\ FilterAtRest
    /\ acq = AcqIdle /\ views = <<>>
    /\ \E file \in PrefsFiles :
         prefs = [file |-> file, cache |-> <<>>, op |-> "import", got |-> <<>>, updates |-> 0]

PrefsNext ==
    \/ PLoadSettings
    \/ PGetSettings
    \/ PUpdateSettings

PrefsSpec == PrefsInit /\ [][PrefsNext]_vars

\* two logs that differ only in dosage values and notes text
SameButDosesAndNotes(a, b) ==
    /\ Len(a) = Len(b)
    /\ \A i \in 1..Len(a) :
         /\ a[i].when = b[i].when
         /\ Len(a[i].meds) = Len(b[i].meds)
         /\ \A j \in 1..Len(a[i].meds) : a[i].meds[j].medication = b[i].meds[j].medication

\* MedicationTracker.__init__ on each log: safe mode off, the table filled
ViewsInit ==
    /\ SingleAtRest /\ ConcAtRest /\ VoiceAtRest /\ FilterAtRest
    /\ acq = AcqIdle /\ prefs = <<>>
    /\ \E a \in ViewLogs : \E b \in ViewLogs :
         /\ SameButDosesAndNotes(a, b)
         /\ views = [safe_mode |-> FALSE, logs |-> <<a, b>>,
                     tables |-> <<RefreshTable(a, FALSE), RefreshTable(b, FALSE)>>,
                     exports |-> << <<>>, <<>> >>, exported_safe |-> FALSE]

ViewsNext ==
    \/ MvSetSafeMode
    \/ MvExportTxt

ViewsSpec == ViewsInit /\ [][ViewsNext]_vars

\* The instance that called _write_data keeps running; the other instance
\* need never remove the lock file.
LockFairSpec ==
    /\ LockSpec
    /\ WF_vars(AOpenExcl) /\ WF_vars(ACheckTimeout) /\ WF_vars(ASleep)
    /\ WF_vars(AWriteAndRelease)

(***************************************************************************)
(* The environment: the process is started (the constructor loads the      *)
(* file); the file is overwritten from outside with text that is not JSON. *)
(***************************************************************************)
Programs == {"Journey", "HRT", "Links", "Cycle", "JJ", "Med", "Journal"}

ConstructorLoad(f) ==
    CASE app = "Links" -> LinkLoad(f)
      [] app = "Cycle" -> CycleLoad(f)
      [] app = "JJ" -> JJLoadData(f).entries
      [] app = "Med" -> MedLoad(f)
      [] OTHER -> <<>>

Start ==
    /\ app # "Journal"
    /\ ~running
    \* Journey Journal creates a missing j_j.json as "[]" when it is imported
    /\ disk' = IF app = "JJ" /\ disk.kind = "missing" THEN Array(<<>>) ELSE disk
    /\ mem' = ConstructorLoad(disk)
    /\ editing' = ""
    /\ Return("start", NoArg, "None", <<>>,
              IF app = "JJ" THEN JJLoadData(disk).notice ELSE "")
    /\ table' = IF app = "Med" THEN MedRows(mem') ELSE <<>>
    /\ UNCHANGED <<ui, app, legacy, migrated, nextId>>

CorruptFile ==
    /\ disk.kind \notin {"notjson"}
    /\ disk' = NotJson
    /\ Observe("corrupt", NoArg, "None", <<>>, "")
    /\ preWrite' = NotJson
    /\ crashed' = FALSE
    /\ UNCHANGED <<table, ui, app, running, legacy, migrated, mem, editing, nextId>>

Init ==
    /\ app \in Programs
    /\ running = FALSE
    \* TrackMyHRT may find an entries.json of an earlier version, whose
    \* entries have no id (what _ensure_entry_ids in _load_entries is for)
    /\ disk \in IF app = "HRT" THEN {Missing, Array(<<LegacyLine("T1")>>)} ELSE {Missing}
    /\ legacy \in IF app = "HRT" THEN {<<>>, <<LegacyLine("T1")>>} ELSE {<<>>}
    /\ migrated = 0
    /\ mem = <<>>
    /\ editing = ""
    /\ ui = UiInit
    /\ table = <<>>
    /\ nextId = 1
    /\ op = "init"
    /\ arg = NoArg
    /\ ret = "None"
    /\ loaded = <<>>
    /\ notice = ""
    /\ preWrite = Missing
    /\ crashed = FALSE
    /\ OthersNotRun

Next ==
    \/ Start
    \/ CorruptFile
    \/ JourneyNext
    \/ HRTNext
    \/ LinksNext
    \/ CycleNext
    \/ JJNext
    \/ MedNext
    \/ JournalNext

Spec == Init /\ [][Next]_vars

(***************************************************************************)
(* The claims                                                              *)
(***************************************************************************)
IsList(f) == f.kind = "list"
Has(a, field) == field \in DOMAIN a

\* The steps that load the store file: storage.load_data, TrackMyHRT's
\* _load_entries, each window's constructor, Cycle Tracker's Reload.
LoadOps == {"load_data", "_load_entries", "start", "on_reload"}
Exceptions == {"OSError", "ValueError"}

\* C1 (as stated): a load that finds text that is not JSON in the store file
\* raises nothing and leaves the file as it found it.
C1_LoadLeavesInvalidFile ==
    [][(IsInvalid(disk) /\ op' \in LoadOps) =>
           (disk' = disk /\ ret' \notin Exceptions)]_vars

\* C2 (as stated): in every program a crash inside a write over a file that
\* holds records leaves that file intact, never missing, truncated or
\* half-written.
C2_EveryStoreSurvivesCrash ==
    (crashed /\ IsList(preWrite) /\ preWrite.recs # <<>>) => disk = preWrite

\* An entry of hrt_data.json as it was, or with the fields load_data fills in
SameButFilled(new, old) ==
    /\ new.date = old.date /\ new.val = old.val
    /\ old.id # 0 => new.id = old.id
    /\ old.created_at # "" => new.created_at = old.created_at
    /\ old.updated_at # "" => new.updated_at = old.updated_at

FirstWithDate(s, d) ==
    LET hits == {i \in Indices(s) : s[i].date = d}
    IN  IF hits = {} THEN 0 ELSE CHOOSE i \in hits : \A j \in hits : i <= j

C3_UpsertStep ==
    (op' = "upsert_entry" /\ ret' = "True") =>
        LET k == FirstWithDate(disk.recs, arg'.date) IN
        /\ IsList(disk) /\ IsList(disk') /\ k # 0
        /\ Len(disk'.recs) = Len(disk.recs)
        /\ disk'.recs[k] = arg'
        /\ \A i \in Indices(disk.recs) \ {k} : SameButFilled(disk'.recs[i], disk.recs[i])

C3_UpdateLinkStep ==
    (op' = "update_link" /\ ret' = "True") =>
        LET i == arg'.index
            t == Strip(arg'.title)
            u == Strip(arg'.url)
            k == FirstWithUrl(mem, u, i)
        IN
        /\ i \in Indices(mem)
        /\ disk' = Array(mem')
        /\ IF k = 0 THEN
               /\ Len(mem') = Len(mem)
               /\ mem'[i] = Link(t, u)
               /\ \A j \in Indices(mem) \ {i} : mem'[j] = mem[j]
           ELSE
               /\ Len(mem') = Len(mem) - 1
               /\ mem' = SeqRemove([mem EXCEPT ![k].title = t], i)

\* C3 (amended): when upsert_entry returns True, the first entry of that date
\* is replaced, the count is unchanged, and every other entry is unchanged but
\* for the id, created_at and updated_at that load_data fills in where they
\* are missing. When update_link returns True and no other link holds the new
\* URL, the indexed link is replaced, the count and the other links are
\* unchanged; when another link holds the URL, that link is retitled and the
\* indexed link is removed.
C3_UpdateKeepsOtherRecords == [][C3_UpsertStep /\ C3_UpdateLinkStep]_vars

\* C3 witness: an upsert replaced one of two entries, the other has its id
C3_UpsertBesideAnother ==
    /\ op = "upsert_entry" /\ ret = "True"
    /\ IsList(disk) /\ Len(disk.recs) = 2
    /\ \E i \in Indices(disk.recs) : disk.recs[i] # arg /\ disk.recs[i].id # 0

\* C3 (as stated): an update leaves the count and every record but the
\* matching one exactly as they were.
C3_UpdateLeavesOthersUntouched ==
    [][/\ (op' = "upsert_entry" /\ ret' = "True") =>
              /\ Len(disk'.recs) = Len(disk.recs)
              /\ \A i \in Indices(disk.recs) \ {FirstWithDate(disk.recs, arg'.date)} :
                     disk'.recs[i] = disk.recs[i]
       /\ (op' = "update_link" /\ ret' = "True") =>
              /\ Len(mem') = Len(mem)
              /\ \A j \in Indices(mem) \ {arg'.index} : mem'[j] = mem[j]]_vars

C4_DeleteByDateStep ==
    (/\ op' = "delete_entry_by_date" /\ Has(arg', "date")
     /\ FirstWithDate(disk.recs, arg'.date) = 0) =>
        /\ ret' = "False"
        /\ disk'.kind = disk.kind
        /\ Len(disk'.recs) = Len(disk.recs)
        /\ \A i \in Indices(disk.recs) : SameButFilled(disk'.recs[i], disk.recs[i])

C4_DeleteByIdStep ==
    (/\ op' = "_delete_entry_by_id" /\ Has(arg', "id")
     /\ \A i \in Indices(disk.recs) : disk.recs[i].id # arg'.id) =>
        /\ ret' = "False"
        /\ disk'.recs = disk.recs
        /\ disk'.kind = IF disk.kind = "missing" /\ arg'.id # 0 THEN "list" ELSE disk.kind

\* C4 (amended): a delete for a date or id the store does not hold returns
\* False and removes nothing; the file is as it was, except that load_data
\* fills in missing id, created_at and updated_at fields, and that TrackMyHRT
\* creates a missing entries.json as an empty array.
C4_DeleteOfAbsentKeepsRecords == [][C4_DeleteByDateStep /\ C4_DeleteByIdStep]_vars

\* C4 witness: a delete returned False over a file that holds entries
C4_AbsentDeleteOverRecords ==
    /\ op = "delete_entry_by_date" /\ ret = "False"
    /\ IsList(disk) /\ disk.recs # <<>>
    /\ \A i \in Indices(disk.recs) : disk.recs[i].date # arg.date

\* C4 (as stated): a delete for a date or id the store does not hold returns
\* False and leaves the file unchanged.
C4_DeleteOfAbsentLeavesFile ==
    [][/\ (/\ op' = "delete_entry_by_date" /\ Has(arg', "date")
           /\ FirstWithDate(disk.recs, arg'.date) = 0) =>
              (ret' = "False" /\ disk' = disk)
       /\ (/\ op' = "_delete_entry_by_id" /\ Has(arg', "id")
           /\ \A i \in Indices(disk.recs) : disk.recs[i].id # arg'.id) =>
              (ret' = "False" /\ disk' = disk)]_vars

\* C5 (as stated, for storage.save_entry, entries compared up to the fields
\* load_data fills in): after save_entry returns, the file holds every entry
\* it held before, in the same order, and then the new entry.
C5_AppendKeepsPriorRecords ==
    [][(op' = "save_entry" /\ ret' = "None") =>
           /\ IsList(disk')
           /\ Len(disk'.recs) = Len(disk.recs) + 1
           /\ \A i \in Indices(disk.recs) : SameButFilled(disk'.recs[i], disk.recs[i])
           /\ disk'.recs[Len(disk'.recs)] = arg']_vars

NoTwoAlike(s, Key(_)) == \A i, j \in Indices(s) : i # j => Key(s[i]) # Key(s[j])

\* C6 (as stated, for the two windows that key their entries by date): the
\* sequence Journey Journal holds has at most one entry per entry_date, the
\* sequence the medication log holds at most one entry per `when`.
C6_OneRecordPerDate ==
    /\ app = "JJ" => NoTwoAlike(mem, LAMBDA e : e.entry_date)
    /\ app = "Med" => NoTwoAlike(mem, LAMBDA e : e.when)

Complete(e) == e.id # 0 /\ e.created_at # "" /\ e.updated_at # ""

FirstWithId(s, id) ==
    LET hits == {i \in Indices(s) : s[i].id = id}
    IN  IF hits = {} THEN 0 ELSE CHOOSE i \in hits : \A j \in hits : i <= j

C8_UpsertEntryStep ==
    (op' = "upsert_entry" /\ ret' \in {"True", "False"}) =>
        LET k == FirstWithDate(disk.recs, arg'.date)
            n == Len(disk'.recs)
        IN
        /\ IsList(disk')
        /\ ret' = "True" =>
               /\ k # 0 /\ n = Len(disk.recs)
               /\ disk'.recs[k] = arg'
        /\ ret' = "False" =>
               /\ disk'.recs[n] = arg'
               \* n = 1: load_data returned [], its own write having failed
               /\ n = Len(disk.recs) + 1 \/ n = 1
        /\ k = 0 => ret' = "False"

C8_UpdateLinkStep ==
    (op' = "update_link" /\ ret' \in {"True", "False"}) =>
        LET i == arg'.index
            t == Strip(arg'.title)
            u == Strip(arg'.url)
        IN
        /\ ret' = "True" <=> (i \in Indices(mem) /\ t # "" /\ u # "")
        /\ ret' = "False" => (mem' = mem /\ disk' = disk)
        /\ (ret' = "True" /\ FirstWithUrl(mem, u, i) = 0) =>
               (mem'[i] = Link(t, u) /\ disk' = Array(mem'))

C8_HrtUpsertStep ==
    (op' = "_upsert_entry" /\ Has(arg', "id")) =>
        LET k == FirstWithId(disk.recs, arg'.id) IN
        /\ ret' = "None"
        /\ IsList(disk')
        /\ k # 0 => (Len(disk'.recs) = Len(disk.recs) /\ disk'.recs[k] = arg')
        /\ k = 0 => disk'.recs = Append(disk.recs, arg')

\* C8 (amended): upsert_entry looks for the first entry of the date among what
\* load_data returns (nothing, when load_data's own write failed): found, it
\* is replaced in place, the file rewritten and the result True; not found,
\* the entry is appended to what load_data returned and the result is False.
\* update_link addresses the link by its index: it returns False and changes
\* nothing when the index is out of range or the stripped title or url is
\* empty, True otherwise, replacing the link in place unless another link
\* holds the url. TrackMyHRT's _upsert_entry replaces in place the entry of
\* that id or appends, and returns nothing.
C8_UpdateFindsAndReplaces ==
    [][C8_UpsertEntryStep /\ C8_UpdateLinkStep /\ C8_HrtUpsertStep]_vars

\* C8 witness: update_link replaced one of two links
C8_UpdatedOneOfTwoLinks ==
    /\ op = "update_link" /\ ret = "True"
    /\ Len(mem) = 2 /\ disk = Array(mem)

\* C8 (as stated): an update that finds its record replaces it in place and
\* returns true; one that does not find it returns false.
C8_UpdateReturnsFound ==
    [][/\ (op' = "_upsert_entry" /\ Has(arg', "id")) =>
              LET k == FirstWithId(disk.recs, arg'.id) IN
              /\ k = 0 => ret' = "False"
              /\ k # 0 => (ret' = "True" /\ disk'.recs[k] = arg')
       /\ (op' = "update_link" /\ ret' \in {"True", "False"}) =>
              LET i == arg'.index IN
              /\ i \notin Indices(mem) => ret' = "False"
              /\ i \in Indices(mem) =>
                     (ret' = "True" /\ Len(mem') = Len(mem) /\ mem'[i].url = Strip(arg'.url))
       /\ (op' = "upsert_entry" /\ ret' \in {"True", "False"}) =>
              LET k == FirstWithDate(disk.recs, arg'.date) IN
              /\ k = 0 => ret' = "False"
              /\ k # 0 => (ret' = "True" /\ disk'.recs[k] = arg')]_vars

\* The windows whose steps are the handlers the user triggers
Windows == {"Cycle", "JJ", "Med", "Journal"}

\* C9 (as stated): the OSError of a failed write never escapes a window's
\* handler; it ends in the handler's message box.
C9_WriteFailureIsShown ==
    (app \in Windows /\ op # "start") => ret # "OSError"

Untouched == disk' = disk /\ mem' = mem

\* C10: a step whose input fails validation (end date before start date; no
\* mood and no notes; a blank date; no medication name; a blank title or url)
\* leaves the in-memory sequence and the file as they were.
C10_InvalidInputChangesNothing ==
    [][/\ (/\ op' \in {"on_add", "on_edit"} /\ Has(arg', "end_date")
           /\ DateRank(arg'.end_date) < DateRank(arg'.start_date)) =>
              (Untouched /\ notice' = "warning")
       /\ (/\ op' = "add_entry" /\ Has(arg', "mood")
           /\ arg'.mood = "" /\ arg'.notes = "") =>
              (Untouched /\ notice' = "warning")
       /\ (op' = "upsert_entry" /\ Has(arg', "date") /\ arg'.date = "") =>
              (Untouched /\ ret' = "ValueError")
       /\ (op' = "_save_entry" /\ Has(arg', "named")) =>
              (Untouched /\ notice' = "warning")
       /\ (op' = "_on_log_entry" /\ Has(arg', "meds") /\ arg'.meds = "") =>
              Untouched
       /\ (/\ op' \in {"add_link", "update_link"} /\ Has(arg', "url")
           /\ (Strip(arg'.title) = "" \/ Strip(arg'.url) = "")) =>
              Untouched]_vars

\* C10 witness: Cycle Tracker refused an entry while it held entries
C10_RefusedOverRecords ==
    /\ op = "on_add" /\ notice = "warning"
    /\ DateRank(arg.end_date) < DateRank(arg.start_date)
    /\ mem # <<>> /\ disk = Array(mem)

(***************************************************************************)
(* Claims about two instances (ConcSpec)                                   *)
(***************************************************************************)
BothInWriteSection == InWriteSection("p1") /\ InWriteSection("p2")

\* C11 (as stated): at no time are two process instances both inside the
\* write section of _write_data (the temp-file write and the rename).
C11_NeverTwoInWriteSection == ~BothInWriteSection

\* C11 (amended): two instances are both inside the write section only after
\* some wait for the lock file has run into its timeout.
C11_TwoInWriteSectionOnlyAfterTimeout == BothInWriteSection => timedOut

\* C11 witness: no wait has timed out; one instance is in the write section
\* with the lock file in place and the other is waiting to create it
C11_OneWritesWhileOtherWaits ==
    /\ ~timedOut /\ lock
    /\ InWriteSection("p1")
    /\ proc["p2"].pc = "acquire"

HasDate(f, d) == \E i \in Indices(f.recs) : f.recs[i].date = d

\* C20 (as stated): when the two instances have each completed an
\* upsert_entry call, for different dates, and the calls overlapped, the store
\* file holds an entry of each date. (Stated for the runs in which no wait
\* for the lock file timed out, where the lock did all it can do.)
C20_OverlappingUpsertsBothKept ==
    (/\ proc["p1"].pc = "idle" /\ proc["p2"].pc = "idle"
     /\ overlap /\ ~timedOut
     /\ proc["p1"].done # "" /\ proc["p2"].done # ""
     /\ proc["p1"].done # proc["p2"].done) =>
        (HasDate(disk, proc["p1"].done) /\ HasDate(disk, proc["p2"].done))

(***************************************************************************)
(* Claims about one program's run (Spec), continued                        *)
(***************************************************************************)
\* The explicit ids of a sequence of records (0 = a record without id)
Ids(s) == {s[i].id : i \in Indices(s)} \ {0}
NoIdTwice(s) == \A i, j \in Indices(s) : (s[i].id # 0 /\ s[i].id = s[j].id) => i = j
IdPrograms == {"HRT", "Journal"}

\* C12 (as stated): in the programs whose records carry an explicit id, no id
\* belongs to two records of the store, and a record has the same id on every
\* later load: two loads in a row return the same records with the same ids.
C12_IdsUniqueAndStable ==
    [][/\ app \in IdPrograms =>
            (NoIdTwice(disk'.recs) /\ NoIdTwice(mem') /\ NoIdTwice(loaded'))
       /\ (/\ op = "_load_entries" /\ ret = "list"
           /\ op' = "_load_entries" /\ ret' = "list") =>
              (loaded' = loaded)]_vars

\* The steps the user did not ask for: the loads and the autosave timer's tick
BackgroundOps == LoadOps \cup {"_autosave_tick"}

HrtSameButFilled(new, old) ==
    /\ new.timestamp_local = old.timestamp_local
    /\ old.id # 0 => new.id = old.id
    /\ old.created_at # "" => new.created_at = old.created_at
    /\ old.updated_at # "" => new.updated_at = old.updated_at

\* load_data's schema upgrade of the stored entries
IsUpgrade(new, old) ==
    /\ Len(new) = Len(old)
    /\ \A i \in Indices(old) : SameButFilled(new[i], old[i])

\* _load_entries' fill-in of the stored entries, or of the legacy lines it
\* brings into a store without entries
IsHrtFill(new, old) ==
    /\ Len(new) = Len(old)
    /\ \A i \in Indices(old) : HrtSameButFilled(new[i], old[i])

\* A save of the Journal's entries in which only the current entry changes,
\* to the editor's content
IsAutosave(new, old, u) ==
    /\ Ids(new) = Ids(old) /\ Len(new) = Len(old)
    /\ \A i \in Indices(new) :
         IF new[i].id = u.current_id THEN new[i].title = u.title
         ELSE \E j \in Indices(old) : old[j] = new[i]

InFile(f, r) == IsList(f) /\ \E i \in Indices(f.recs) : f.recs[i] = r
HasId(f, id) == IsList(f) /\ \E i \in Indices(f.recs) : f.recs[i].id = id

\* The creates of Journey, TrackMyHRT, Cycle Tracker and the medication log
\* that returned without reporting a failure: the record is in the file.
C14_FormCreates ==
    /\ (op' = "save_entry" /\ ret' = "None" /\ Has(arg', "date")) =>
           InFile(disk', arg')
    /\ (op' = "_save_entry" /\ notice' = "information") => InFile(disk', arg')
    /\ (op' = "on_add" /\ ret' = "None" /\ notice' = "") => InFile(disk', arg')
    /\ (op' = "_on_log_entry" /\ ret' = "None" /\ Has(arg', "meds") /\ arg'.meds # "") =>
           InFile(disk', arg')

\* C14 (as stated): when a create operation returns (without reporting a
\* write failure), the created record is in the store file.
C14_CreatedRecordIsInFile ==
    [][/\ C14_FormCreates
       /\ (op' = "_new_entry" /\ ret' = "None") => HasId(disk', nextId)]_vars

\* C14 (amended): the same, except for the Journal's New Entry while safe mode
\* is on.
C14_CreatedRecordIsInFileUnlessSafeMode ==
    [][/\ C14_FormCreates
       /\ (op' = "_new_entry" /\ ret' = "None" /\ ~ui.safe_mode) =>
              HasId(disk', nextId)]_vars

\* C14 witness: New Entry, safe mode off, has returned and the file holds the
\* new entry beside an earlier one
C14_NewEntryWritten ==
    /\ op = "_new_entry" /\ ret = "None" /\ ~ui.safe_mode
    /\ Len(disk.recs) = 2 /\ HasId(disk, ui.current_id)
    /\ ui.current_id = nextId - 1

\* The editor's content differs from what the file holds for the current entry
ChangedSinceSave ==
    \E i \in Indices(disk.recs) :
        disk.recs[i].id = ui.current_id /\ disk.recs[i].title # ui.title

\* the file holds the entry `id` with the content `text`
Saved(f, id, text) ==
    IsList(f) /\ \E i \in Indices(f.recs) : f.recs[i].id = id /\ f.recs[i].title = text

Queued(k) == {i \in Indices(signals) : signals[i].kind = k}

\* A worker whose run() has ended has exactly one signal queued, a finished
\* signal carries the worker's out_path, and no other worker has any queued.
OneSignalPerRun ==
    \A k \in Kinds :
        /\ Cardinality(Queued(k)) = IF workers[k].state = "ended" THEN 1 ELSE 0
        /\ \A i \in Queued(k) :
               signals[i].sig = "finished" => signals[i].payload = workers[k].out_path

\* What passes between the threads: a step of run() leaves the window's state
\* alone, a slot leaves the worker's out_path alone, and on_record_finished
\* takes the path from the signal.
OnlyThePathIsHandedOver ==
    /\ (\E k \in Kinds : workers[k].state = "running" /\ workers'[k].state = "ended") =>
           win' = win
    /\ (\E k \in Kinds : workers[k].state = "ended" /\ workers'[k].state = "reported") =>
           /\ \A k \in Kinds : workers'[k].out_path = workers[k].out_path
           /\ (Head(signals).kind = "record" /\ Head(signals).sig = "finished") =>
                  win'.last_path = workers["record"].out_path

\* C16: every worker thread that was started reports back, its slot is run for
\* the one finished or failed signal it emitted (started leads to reported),
\* and nothing but that signal, with the file path, passes between the worker
\* and the UI thread.
C16_StartedWorkerReportsOnce ==
    /\ \A k \in Kinds : (workers[k].state = "running") ~> (workers[k].state = "reported")
    /\ []OneSignalPerRun
    /\ [][OnlyThePathIsHandedOver]_vars

\* C16 witness: the second recording's finished signal has been delivered,
\* on_record_finished has taken its path and given the Record button back
C16_SecondRecordingReported ==
    /\ workers["record"].state = "reported"
    /\ workers["record"].out_path = <<"record", 2>>
    /\ win.last_path = <<"record", 2>>
    /\ win.record_button

(***************************************************************************)
(* Claims about a list view's search (FilterSpec)                          *)
(***************************************************************************)
\* the text fields of a row that the search looks at
FieldTexts(kind, row) ==
    IF kind = "Journal"
    THEN {row.title, JoinText(row.tags, <<" ">>), PlainPreview(row.body_html)}
    ELSE {StripText(row.title), StripText(row.url)}
MatchesAField(kind, row, text) ==
    \E f \in FieldTexts(kind, row) : InText(SearchQuery(text), LowerText(f))
\* the rows of the list with an empty search box, top to bottom
Unfiltered(kind, rows) ==
    IF kind = "Journal" THEN JnListOrder(rows) ELSE [i \in 1..Len(rows) |-> i]

\* C17: the list shows exactly the rows in which the search text, compared
\* without regard to case, is a substring of one of the row's text fields,
\* and shows them in the order they have in the unfiltered list.
C17_FilterKeepsExactlyFieldMatches ==
    LET InAField(i) == MatchesAField(finput.kind, finput.rows[i], finput.text)
    IN listed = SelectSeq(Unfiltered(finput.kind, finput.rows), InAField)

(***************************************************************************)
(* Claims about one program's run (Spec): writes and absent records        *)
(***************************************************************************)
\* The step was a handler of the program that ran to its end and reported no
\* failed write: every write in it was completed.
WritesCompleted ==
    /\ op' # "corrupt"
    /\ ret' \notin {"crash", "OSError"}
    /\ notice' # "critical"

\* C18: a step of a program whose writes were completed and that changed the
\* store file leaves a JSON array in it, whatever the file held before.
C18_CompletedWriteLeavesArray ==
    [][(WritesCompleted /\ disk' # disk) => IsList(disk')]_vars

\* C18 witness: the Link Manager has written a second link into links.json.
C18_LinksWroteArray ==
    /\ app = "Links" /\ op = "add_link" /\ ret # "OSError"
    /\ IsList(disk) /\ Len(disk.recs) = 2 /\ mem = disk.recs

\* The step was an update or a delete for a record the program no longer
\* holds: a row of the Medication log that stayed on screen after its entry
\* was removed, or an index that update_link does not find.
TargetIsGone ==
    \/ op' = "update_link" /\ Has(arg', "index") /\ arg'.index \notin Indices(mem)
    \/ op' = "_delete_selected" /\ Has(arg', "when")
           /\ FindEntryIndexByWhen(mem, arg'.when) = 0
GoneIsReported == ret' \in {"True", "False"} \/ notice' = "warning"

\* C19: an update or a delete whose target record no longer exists ends in
\* a boolean result or in a message box that tells the user so, and in no
\* exception.
C19_GoneTargetIsReported ==
    [][TargetIsGone => (GoneIsReported /\ ret' \notin Exceptions)]_vars

(***************************************************************************)
(* Claims about the wait for the lock file (LockFairSpec)                  *)
(***************************************************************************)
Returned == acq.pc = "write"

\* C21 (as stated): _acquire_lock has returned within its timeout, whatever
\* happens to the lock file.
C21_ReturnsWithinTimeout == Returned => acq.waited <= TimeoutTicks

\* C21 (amended): every call of _write_data gets out of _acquire_lock and
\* completes, also when the lock file is never removed; _acquire_lock sleeps
\* only while the timeout has not passed, so that it returns before the
\* timeout plus the longest sleep has gone by.
C21_ReturnsBySleepAfterTimeout ==
    /\ (acq.pc # "idle") ~> (acq.pc = "idle")
    /\ [](acq.pc = "sleep" => acq.elapsed < TimeoutTicks)
    /\ [](Returned => acq.waited < TimeoutTicks + MaxSleepTicks)

\* C21 witness: the call went on without the lock after the timeout, the
\* lock file still being there.
C21_GaveUpOnHeldLock ==
    Returned /\ ~acq.got /\ lock /\ acq.waited >= TimeoutTicks

(***************************************************************************)
(* Claims about TrackMyHRT's legacy migration (Spec)                       *)
(***************************************************************************)
\* a load has just written the legacy lines into entries.json
MigratesNow == app = "HRT" /\ op' = "_load_entries" /\ migrated' = migrated + 1
\* entries.json is missing or _read_entries_json finds no entries in it
EmptyOrMissing(f) == f.kind = "missing" \/ ReadEntriesJson(f) = <<>>

\* C22: the migration of entries.jsonl is one-time: a load writes the legacy
\* lines into entries.json only when entries.json is empty or missing, and
\* once a load has done so no later load does so again.
C22_MigrationRunsOnce ==
    [][MigratesNow => (EmptyOrMissing(disk) /\ migrated = 0)]_vars

(***************************************************************************)
(* Claims about the Voice Trainer's countdown (VoiceTimerFairSpec)         *)
(***************************************************************************)
\* the counter from which the latest _start_countdown call of a recorder
\* took the path its on_done_fn records to
CounterOf(k) == IF k = "record" THEN win.record_counter ELSE win.note_counter
\* the on_done_fn of that call (_begin_recording) has been called
BegunRecording(k, c) == workers[k].out_path = <<k, c>>

\* C23: every call to _start_countdown eventually calls the on_done_fn passed
\* to that call (at once when the countdown is disabled, after the countdown
\* otherwise): the recording the call was made for begins.
C23_CountdownCallsOnDone ==
    \A k \in Kinds : \A c \in 1..MaxRecordings :
        (CounterOf(k) = c) ~> BegunRecording(k, c)

(***************************************************************************)
(* Claims about the Link Manager's store (Spec)                            *)
(***************************************************************************)
NoTwoWithSameUrl(links) ==
    \A i, j \in Indices(links) : links[i].url = links[j].url => i = j

\* C24: starting from an empty link store, after any sequence of add_link,
\* update_link and remove_link calls no two stored links have the same URL,
\* in LinkStorage.data and in the file save() wrote.
C24_StoredUrlsAreUnique ==
    app = "Links" =>
        /\ NoTwoWithSameUrl(mem)
        /\ IsList(disk) => NoTwoWithSameUrl(disk.recs)

\* C24 witness: update_link has given the second of two links the URL of the
\* first, and one link with that URL is left
C24_UpdateMergedTwoLinks ==
    /\ app = "Links" /\ op = "update_link" /\ ret = "True"
    /\ arg.index = 2 /\ Len(mem) = 1 /\ disk = Array(mem)
    /\ mem[1].url = Strip(arg.url) /\ mem[1].title = Strip(arg.title)

(***************************************************************************)
(* Claims about the Medication log's edit mode (Spec)                      *)
(***************************************************************************)
\* Edit has just put the form into edit mode for the row the user selected,
\* in a table that shows the entries as they are
EditModeFor(row) ==
    /\ app = "Med" /\ op = "_edit_selected" /\ arg.row = row
    /\ editing = arg.when /\ table = MedRows(mem)
\* Log Entry is clicked with a medication in the form, and its save completes
LogsEntry == op' = "_on_log_entry" /\ ret' = "None" /\ ~crashed' /\ arg'.meds # ""
\* `new` is `old` with the entry at `row` replaced by new_entry, the other
\* entries as they were
ReplacedAlone(old, row, new_entry, new) ==
    /\ Len(new) = Len(old)
    /\ \E k \in Indices(new) :
          new[k] = new_entry /\ SeqRemove(new, k) = SeqRemove(old, row)

\* C25: in edit mode, Log Entry replaces the existing entry that was selected
\* for editing: that entry alone is replaced, no other entry is altered, and
\* the number of entries is unchanged.
C25_EditReplacesSelectedEntryAlone ==
    [][\A row \in Indices(mem) :
          (EditModeFor(row) /\ LogsEntry) => ReplacedAlone(mem, row, arg', mem')]_vars

(***************************************************************************)
(* Claims about the Journal's safe mode (Spec)                             *)
(***************************************************************************)
\* the handlers of the Journal's buttons, list and editor
JournalUserOps == {"_new_entry", "_delete_entry", "_mark_dirty", "_on_select"}
\* every entry that is in both keeps its content (the title stands for title,
\* tags and body)
SameContent(new, old) ==
    \A i \in Indices(old) : \A j \in Indices(new) :
        new[j].id = old[i].id => new[j].title = old[i].title

\* C26: while safe mode is on, no user action in the journal widget writes the
\* journal file or changes any entry's title, tags or body.
C26_SafeModeKeepsFileAndContent ==
    [][(app = "Journal" /\ running /\ ui.safe_mode /\ op' \in JournalUserOps) =>
          (disk' = disk /\ SameContent(mem', mem))]_vars

(***************************************************************************)
(* Claims about Journey's settings (PrefsSpec)                             *)
(***************************************************************************)
InRange(settings, f) ==
    settings[f].int /\ MinValue(f) <= settings[f].n /\ settings[f].n <= MaxValue(f)

\* C27: after any sequence of load_settings, get_settings and update_settings
\* calls, the settings returned by get_settings have window_width in
\* 600..4000, window_height in 400..3000, default_slider_value in 0..10,
\* default_tab_index in 0..50, autosave_seconds in 5..600 and
\* entries_default_view equal to plain or json.
C27_GetSettingsReturnsCheckedValues ==
    prefs.op = "get_settings" =>
        /\ \A f \in IntFields : InRange(prefs.got[1], f)
        /\ prefs.got[1]["entries_default_view"] \in {StrV("plain"), StrV("json")}

(***************************************************************************)
(* Claims about the Medication log's safe mode (ViewsSpec)                 *)
(***************************************************************************)
\* C28: while safe mode is on, the medication table and the text export are
\* the same for any two logs that differ only in dosage values and notes
\* text: nothing shown or exported depends on the stored dosages or notes.
C28_SafeModeViewsHideDosesAndNotes ==
    /\ views.safe_mode => views.tables[1] = views.tables[2]
    /\ views.exported_safe => views.exports[1] = views.exports[2]
====
